---- MODULE Spec2Model ----
(***************************************************************************)
(* Model of sap_hana_client_generator: the ClientGenerator of              *)
(* src/sap_hana_client_generator/generator.py.                             *)
(*                                                                         *)
(* Python strings are sequences of one-character strings.  A dict of the   *)
(* parsed spec tree is a record; an optional key holds <<>> when it is     *)
(* missing and <<value>> when it is present (Absent for a missing string   *)
(* key).  A dict the code iterates over is the sequence of its             *)
(* <<key, value>> pairs in insertion order.                                *)
(***************************************************************************)
EXTENDS Integers, Sequences, FiniteSets, TLC

VARIABLES
    pc,               \* position of the running specification
    name,             \* SpecSanitize: the raw name handed to _sanitize_name
    sanitized,        \* SpecSanitize: the value _sanitize_name returned
    schema,           \* SpecType: the schema node handed to _get_python_type
    with_collector,   \* SpecType: whether the caller passes its set
    model_references, \* SpecType: the caller's set of collected references
    python_type,      \* SpecType: the annotation _get_python_type returned
    resolved,         \* SpecType: the schemas resolved with the set so far
    calls,            \* SpecType: number of calls made so far
    spec,             \* Spec: self.spec, the parsed spec tree
    hash_seed,        \* Spec: the hash seed of the process running generate()
    files,            \* Spec: the output directory, path -> content
    written,          \* Spec: the writes of this run, in order
    run,              \* Spec: which run of generate() this is
    first_output,     \* Spec: the output directory the first run left
    schema_index,     \* SpecResolve: index of the schema whose model is built
    prop_index,       \* SpecResolve: index of the property being resolved
    stack,            \* SpecResolve: the active _get_python_type calls, outermost first
    returned,         \* SpecResolve: the value the last finished call returned
    cli_args,         \* SpecCli: the parsed command line
    spec_file,        \* SpecCli: the file at spec_path
    raised,           \* SpecCli: the exception that is propagating, "none" if none
    exit_code,        \* SpecCli: what main returned, <<>> before it returns
    generate_calls    \* SpecCli: the calls of generate_client_from_spec made by main

Absent == "<absent>"

(***************************************************************************)
(* Characters.                                                             *)
(***************************************************************************)
\* The ASCII letters and digits that occur in the model.
LowerLetters == {"a", "b", "d", "e", "f", "g", "i", "l", "p", "s", "t", "u"}
UpperLetters == {"A", "B", "D"}
Digits == {"1"}
\* "uE9" and "uC9" stand for a non-ASCII letter and its upper case
\* (str.isalpha() is true of them, the character class a-zA-Z does not
\* contain them).
NonAsciiLetters == {"uE9", "uC9"}
Punctuation == {"-", "/"}
\* The characters raw names are drawn from.
Alphabet == {"a", "b", "A", "1", "uE9", "-", "/", "_", "."}

\* The character class [a-zA-Z0-9_\.] of line 77.
KeptByReSub == LowerLetters \cup UpperLetters \cup Digits \cup {"_", "."}

\* str.isalpha() on one character.
isalpha(c) == c \in LowerLetters \cup UpperLetters \cup NonAsciiLetters

\* re.sub(r'[^a-zA-Z0-9_\.]', '_', name)
ReSub(s) == [i \in 1..Len(s) |-> IF s[i] \in KeptByReSub THEN s[i] ELSE "_"]

ReplaceDotsDropped(s) == SelectSeq(s, LAMBDA c : c # ".")

\* name.replace('.', '_')
ReplaceDots(s) == [i \in 1..Len(s) |-> IF s[i] = "." THEN "_" ELSE s[i]]

ApiPrefix == <<"a", "p", "i", "_">>

NeedsPrefixUnlessUnderscore(s) == s # <<>> /\ s[1] # "_"

\* The condition of line 83: name and not name[0].isalpha() and name[0] != '_'
NeedsPrefix(s) == s # <<>> /\ ~isalpha(s[1]) /\ s[1] # "_"

\* ClientGenerator._sanitize_name
sanitize_name(raw) ==
    LET n1 == ReSub(raw)
        n2 == ReplaceDots(n1)
    IN  IF NeedsPrefix(n2) THEN ApiPrefix \o n2 ELSE n2

(***************************************************************************)
(* Variable groups.  A specification leaves the groups of the others idle. *)
(***************************************************************************)
sanVars == <<name, sanitized>>
typeVars == <<schema, with_collector, model_references, python_type, resolved, calls>>
genVars == <<spec, hash_seed, files, written, run, first_output>>
resolveVars == <<schema_index, prop_index, stack, returned>>
cliVars == <<cli_args, spec_file, raised, exit_code, generate_calls>>
vars == <<pc, sanVars, typeVars, genVars, resolveVars, cliVars>>

IdleSanitize == name = <<>> /\ sanitized = <<>>

IdleType ==
    /\ schema = <<>>
    /\ with_collector = FALSE
    /\ model_references = {}
    /\ python_type = <<>>
    /\ resolved = {}
    /\ calls = 0

IdleGenerate ==
    /\ spec = [schemas |-> <<>>, paths |-> <<>>]
    /\ hash_seed = 0
    /\ files = <<>>
    /\ written = <<>>
    /\ run = 0
    /\ first_output = <<>>

IdleResolve ==
    /\ schema_index = 0
    /\ prop_index = 0
    /\ stack = <<>>
    /\ returned = <<>>

IdleCli ==
    /\ cli_args = <<>>
    /\ spec_file = <<>>
    /\ raised = "none"
    /\ exit_code = <<>>
    /\ generate_calls = <<>>

(***************************************************************************)
(* SpecSanitize: one call of _sanitize_name on an arbitrary raw name.      *)
(***************************************************************************)
MaxNameLen == 3

RECURSIVE StringsUpTo(_)
StringsUpTo(n) ==
    IF n = 0 THEN {<<>>}
    ELSE LET shorter == StringsUpTo(n - 1)
         IN  shorter \cup {Append(s, c) : s \in {t \in shorter : Len(t) = n - 1},
                                          c \in Alphabet}

RawNames == StringsUpTo(MaxNameLen)

InitSanitize ==
    /\ name \in RawNames
    /\ sanitized = <<>>
    /\ pc = "call"
    /\ IdleType
    /\ IdleGenerate
    /\ IdleResolve
    /\ IdleCli

Sanitize ==
    /\ pc = "call"
    /\ sanitized' = sanitize_name(name)
    /\ pc' = "returned"
    /\ UNCHANGED <<name, typeVars, genVars, resolveVars, cliVars>>

NextSanitize == Sanitize

SpecSanitize == InitSanitize /\ [][NextSanitize]_vars

(***************************************************************************)
(* Claims about _sanitize_name (SpecSanitize).                             *)
(***************************************************************************)
IdentifierStart == LowerLetters \cup UpperLetters \cup {"_"}
IdentifierRest == IdentifierStart \cup Digits

\* The identifier grammar: non-empty, a letter or underscore first, then
\* letters, digits and underscores.
IsIdentifier(s) ==
    /\ s # <<>>
    /\ s[1] \in IdentifierStart
    /\ \A i \in 1..Len(s) : s[i] \in IdentifierRest

\* C1: for every raw name, the empty string included, the output of
\* _sanitize_name is non-empty and matches the identifier grammar.
C1_IdentifierValid == pc = "returned" => IsIdentifier(sanitized)

\* The raw name with every character outside [A-Za-z0-9_] replaced, position
\* by position, by an underscore.
Underscored(raw) ==
    [i \in 1..Len(raw) |-> IF raw[i] \in IdentifierRest THEN raw[i] ELSE "_"]

\* C2: for every non-empty raw name the output is the name with each
\* character outside [A-Za-z0-9_] replaced in place by '_', prefixed with
\* 'api_' exactly when the first character of the replaced string is neither
\* a letter nor an underscore.
C2_ReplacedInPlace ==
    (pc = "returned" /\ name # <<>>) =>
        LET u == Underscored(name)
        IN  sanitized = IF u[1] \in IdentifierStart THEN u ELSE ApiPrefix \o u

\* A name with a leading digit and separators inside and at the end: the
\* prefix is added and the separators stay as underscores.
C2_Witness ==
    /\ pc = "returned"
    /\ name = <<"1", ".", "-">>
    /\ sanitized = <<"a", "p", "i", "_", "1", "_", "_">>

(***************************************************************************)
(* Schema nodes.  A node is the dict of one schema: `type` and `format`    *)
(* are Absent or the string of the key; `items` and `ref` are <<>> when    *)
(* the key is missing and <<value>> when it is present; `properties` and   *)
(* `description` say whether the key is present.                           *)
(***************************************************************************)
Node(t, f, i, p, r, d) ==
    [type |-> t, format |-> f, items |-> i, properties |-> p, ref |-> r,
     description |-> d]

\* The empty dict {}.
EmptySchema == Node(Absent, Absent, <<>>, FALSE, <<>>, FALSE)

\* `not schema` (line 98): a dict is falsy exactly when it has no key.
IsFalsy(s) == s = EmptySchema

\* schema.get('items', {})  (line 119)
ItemsOf(s) == IF s.items = <<>> THEN EmptySchema ELSE s.items[1]

RECURSIVE SplitLast(_)
\* ref.split('/')[-1]  (line 126): the text after the last '/'.
SplitLast(s) ==
    IF s = <<>> THEN <<>>
    ELSE IF s[Len(s)] = "/" THEN <<>>
    ELSE Append(SplitLast(SubSeq(s, 1, Len(s) - 1)), s[Len(s)])

\* Annotations are strings; the fixed pieces of text the code writes are
\* kept as single tokens, a sanitized name as its characters.
ListOf(item_type) == <<"List[">> \o item_type \o <<"]">>
DictStrAny == <<"Dict[str, Any]">>

\* Lines 110-117: the annotation of a string schema.
StringType(schema_format) ==
    IF schema_format = "date-time" THEN <<"datetime">>
    ELSE IF schema_format = "date" THEN <<"date">>
    ELSE IF schema_format = "binary" THEN <<"bytes">>
    ELSE <<"str">>

\* Lines 104-110: the schema takes one of the scalar branches.
IsScalarType(s) == s.type \in {"integer", "number", "boolean", "string"}

\* Lines 104-117.
ScalarType(s) ==
    IF s.type = "integer" THEN <<"int">>
    ELSE IF s.type = "number" THEN <<"float">>
    ELSE IF s.type = "boolean" THEN <<"bool">>
    ELSE StringType(s.format)

IsObjectTypeOnly(s) == s.type = "object"

\* Line 122: schema_type == 'object' or 'properties' in schema
IsObject(s) == s.type = "object" \/ s.properties

\* Line 124: '$ref' in schema
HasRef(s) == s.ref # <<>>

\* Lines 125-127.
RefModelName(s) == sanitize_name(SplitLast(s.ref[1]))

AddReferenceRaw(refs, s) ==
    IF refs = <<>> THEN refs ELSE <<refs[1] \cup {SplitLast(s.ref[1])}>>

\* Lines 130-131: refs is <<>> for None and <<set>> for a set.
AddReference(refs, s) ==
    IF refs = <<>> THEN refs ELSE <<refs[1] \cup {RefModelName(s)}>>

RECURSIVE get_python_type(_, _)
\* ClientGenerator._get_python_type: the annotation returned and the value
\* of the caller's set afterwards.
get_python_type(s, refs) ==
    IF IsFalsy(s) THEN [ret |-> <<"Any">>, refs |-> refs]
    ELSE IF IsScalarType(s) THEN [ret |-> ScalarType(s), refs |-> refs]
    ELSE IF s.type = "array" THEN
        LET item == get_python_type(ItemsOf(s), refs)
        IN  [ret |-> ListOf(item.ret), refs |-> item.refs]
    ELSE IF IsObject(s) THEN [ret |-> DictStrAny, refs |-> refs]
    ELSE IF HasRef(s) THEN [ret |-> RefModelName(s), refs |-> AddReference(refs, s)]
    ELSE [ret |-> <<"Any">>, refs |-> refs]

(***************************************************************************)
(* SpecType: one call of _get_python_type on an arbitrary schema node,     *)
(* with or without the caller's set.                                       *)
(***************************************************************************)
MaxDepth == 2

TypeValues ==
    {Absent, "integer", "number", "boolean", "string", "array", "object", "null"}

FormatValues(t) ==
    IF t = "string" THEN {Absent, "date-time", "date", "binary", "email"}
    ELSE {Absent, "date"}

RefA == <<"#", "/", "s", "/", "A">>
RefDotted == <<"#", "/", "s", "/", "a", ".", "b">>
RefOptions == {<<>>, <<RefA>>, <<RefDotted>>}

\* Nodes without an `items` key.
LeafSchemas ==
    UNION {{Node(t, f, <<>>, p, r, FALSE) :
                f \in FormatValues(t), p \in BOOLEAN, r \in RefOptions} :
           t \in TypeValues}
    \cup {Node(Absent, Absent, <<>>, FALSE, r, TRUE) : r \in RefOptions}

\* Nodes with an `items` key holding one of the nodes of S.
WithItems(S) ==
    {Node(t, Absent, <<i>>, p, r, FALSE) :
        t \in {"array", Absent}, p \in BOOLEAN, r \in {<<>>, <<RefA>>}, i \in S}

RECURSIVE SchemasUpTo(_)
SchemasUpTo(d) ==
    IF d = 0 THEN LeafSchemas
    ELSE LeafSchemas \cup WithItems(SchemasUpTo(d - 1))

Schemas == SchemasUpTo(MaxDepth)

InitType ==
    /\ pc = "call"
    /\ schema \in Schemas
    /\ with_collector \in BOOLEAN
    /\ model_references = {}
    /\ python_type = <<>>
    /\ resolved = {}
    /\ calls = 0
    /\ IdleSanitize
    /\ IdleGenerate
    /\ IdleResolve
    /\ IdleCli

\* The caller's set after a call: the set passed is mutated in place, and a
\* call that passes None leaves the caller's set alone.
Call(s, passed, refs) ==
    LET r == get_python_type(s, IF passed THEN <<refs>> ELSE <<>>)
    IN  [ret |-> r.ret, refs |-> IF passed THEN r.refs[1] ELSE refs]

GetPythonType ==
    /\ pc = "call"
    /\ LET r == Call(schema, with_collector, model_references)
       IN  /\ python_type' = r.ret
           /\ model_references' = r.refs
    /\ resolved' = IF with_collector THEN resolved \cup {schema} ELSE resolved
    /\ calls' = calls + 1
    /\ pc' = "returned"
    /\ UNCHANGED <<schema, with_collector, sanVars, genVars, resolveVars, cliVars>>

NextType == GetPythonType

SpecType == InitType /\ [][NextType]_vars

(***************************************************************************)
(* SpecCollector: a sequence of _get_python_type calls that share one set  *)
(* of collected references, some of them made without the set.             *)
(***************************************************************************)
MaxCalls == 2
MaxCollectorDepth == 1

CollectorLeaves ==
    {Node(t, Absent, <<>>, FALSE, r, FALSE) : t \in {Absent, "object"}, r \in RefOptions}

CollectorWithItems(S) ==
    {Node("array", Absent, <<i>>, FALSE, r, FALSE) : r \in {<<>>, <<RefA>>}, i \in S}

RECURSIVE CollectorSchemasUpTo(_)
CollectorSchemasUpTo(d) ==
    IF d = 0 THEN CollectorLeaves
    ELSE CollectorLeaves \cup CollectorWithItems(CollectorSchemasUpTo(d - 1))

CollectorSchemas == CollectorSchemasUpTo(MaxCollectorDepth)

InitCollector ==
    /\ pc = "caller"
    /\ schema = EmptySchema
    /\ with_collector = FALSE
    /\ model_references = {}
    /\ python_type = <<>>
    /\ resolved = {}
    /\ calls = 0
    /\ IdleSanitize
    /\ IdleGenerate
    /\ IdleResolve
    /\ IdleCli

\* self._get_python_type(s, model_references)
CallWithSet(s) ==
    /\ calls < MaxCalls
    /\ LET r == Call(s, TRUE, model_references)
       IN  /\ python_type' = r.ret
           /\ model_references' = r.refs
    /\ schema' = s
    /\ with_collector' = TRUE
    /\ resolved' = resolved \cup {s}
    /\ calls' = calls + 1
    /\ UNCHANGED <<pc, sanVars, genVars, resolveVars, cliVars>>

\* self._get_python_type(s)
CallWithoutSet(s) ==
    /\ calls < MaxCalls
    /\ LET r == Call(s, FALSE, model_references)
       IN  /\ python_type' = r.ret
           /\ model_references' = r.refs
    /\ schema' = s
    /\ with_collector' = FALSE
    /\ calls' = calls + 1
    /\ UNCHANGED <<pc, resolved, sanVars, genVars, resolveVars, cliVars>>

NextCollector ==
    \/ \E s \in CollectorSchemas : CallWithSet(s)
    \/ \E s \in CollectorSchemas : CallWithoutSet(s)

SpecCollector == InitCollector /\ [][NextCollector]_vars

(***************************************************************************)
(* Claims about _get_python_type (SpecType, SpecCollector).                *)
(***************************************************************************)
RECURSIVE RuleType(_)
\* The rules of the type resolver in priority order, for a node without
\* `$ref`; the items of an array are resolved in turn, and an item that is
\* a reference resolves as the code resolves it.
RuleType(s) ==
    IF HasRef(s) THEN get_python_type(s, <<>>).ret
    ELSE IF s = EmptySchema THEN <<"Any">>
    ELSE IF s.type = "integer" THEN <<"int">>
    ELSE IF s.type = "number" THEN <<"float">>
    ELSE IF s.type = "boolean" THEN <<"bool">>
    ELSE IF s.type = "string" /\ s.format = "date-time" THEN <<"datetime">>
    ELSE IF s.type = "string" /\ s.format = "date" THEN <<"date">>
    ELSE IF s.type = "string" /\ s.format = "binary" THEN <<"bytes">>
    ELSE IF s.type = "string" THEN <<"str">>
    ELSE IF s.type = "array" /\ s.items = <<>> THEN <<"List[", "Any", "]">>
    ELSE IF s.type = "array" THEN <<"List[">> \o RuleType(s.items[1]) \o <<"]">>
    ELSE IF s.type = "object" \/ s.properties THEN <<"Dict[str, Any]">>
    ELSE <<"Any">>

\* C4: for every schema node without `$ref`, _get_python_type returns the
\* type the rules give in priority order: Any for the empty schema, the
\* scalar types, the string formats, List[T] for an array with T the
\* resolution of its items, Dict[str, Any] for an object or inline
\* properties, Any otherwise.
C4_RulesInPriorityOrder ==
    (pc = "returned" /\ ~HasRef(schema)) => python_type = RuleType(schema)

\* An array of arrays of integers resolves to List[List[int]].
C4_Witness ==
    /\ pc = "returned"
    /\ schema = Node("array", Absent,
                     <<Node("array", Absent,
                            <<Node("integer", Absent, <<>>, FALSE, <<>>, FALSE)>>,
                            FALSE, <<>>, FALSE)>>,
                     FALSE, <<>>, FALSE)
    /\ python_type = <<"List[", "List[", "int", "]", "]">>

\* C5: for every schema node that contains `$ref`, whatever other keys it
\* carries, _get_python_type returns the sanitized trailing path segment of
\* the reference.
C5_RefAlwaysModelRef ==
    (pc = "returned" /\ HasRef(schema)) =>
        python_type = sanitize_name(SplitLast(schema.ref[1]))

RECURSIVE RefNodesOf(_)
\* The nodes that contain `$ref` among a node and its array items, at any
\* nesting depth.
RefNodesOf(s) ==
    (IF HasRef(s) THEN {s} ELSE {})
        \cup (IF s.type = "array" /\ s.items # <<>> THEN RefNodesOf(s.items[1]) ELSE {})

\* C6: after any sequence of calls that share one set, the set holds
\* exactly the sanitized trailing segments of the `$ref` nodes that were
\* resolved with it, directly or as array items at any depth.
C6_CollectorExact ==
    model_references =
        {sanitize_name(SplitLast(n.ref[1])) : n \in UNION {RefNodesOf(s) : s \in resolved}}

(***************************************************************************)
(* Strings: case mapping and ordering.                                     *)
(***************************************************************************)
\* The characters the model uses, in code point order.
CodePoints ==
    <<"#", "-", ".", "/", "1", "A", "B", "D", "_", "a", "b", "d", "e", "f", "g",
      "i", "l", "p", "s", "t", "u", "uC9", "uE9">>

Ord(c) == CHOOSE i \in 1..Len(CodePoints) : CodePoints[i] = c

\* str.lower() on one character.
LowerChar(c) ==
    IF c = "A" THEN "a" ELSE IF c = "B" THEN "b" ELSE IF c = "D" THEN "d"
    ELSE IF c = "uC9" THEN "uE9" ELSE c

\* str.upper() on one character.
UpperChar(c) ==
    IF c = "a" THEN "A" ELSE IF c = "b" THEN "B" ELSE IF c = "d" THEN "D"
    ELSE IF c = "uE9" THEN "uC9" ELSE c

\* str.lower()
lower(s) == [i \in 1..Len(s) |-> LowerChar(s[i])]

\* str.capitalize(): the first character upper-cased, the rest lower-cased.
capitalize(s) == [i \in 1..Len(s) |-> IF i = 1 THEN UpperChar(s[i]) ELSE LowerChar(s[i])]

\* a < b on Python strings.
StrLess(a, b) ==
    \E i \in 1..(Len(a) + 1) :
        /\ i <= Len(b)
        /\ \A j \in 1..(i - 1) : a[j] = b[j]
        /\ (i = Len(a) + 1 \/ Ord(a[i]) < Ord(b[i]))

\* x < y on tuples of two strings.
PairLess(x, y) == StrLess(x[1], y[1]) \/ (x[1] = y[1] /\ StrLess(x[2], y[2]))

\* sorted(seq): ascending and stable.
SortedBy(seq, Less(_, _)) ==
    LET n == Len(seq)
        rank(i) ==
            Cardinality({j \in 1..n : Less(seq[j], seq[i]) \/ (seq[j] = seq[i] /\ j < i)})
    IN  [k \in 1..n |-> seq[CHOOSE i \in 1..n : rank(i) = k - 1]]

Reverse(seq) == [i \in 1..Len(seq) |-> seq[Len(seq) + 1 - i]]

\* The elements of a set in ascending order.
Ascending(S, Less(_, _)) ==
    [k \in 1..Cardinality(S) |->
        CHOOSE x \in S : Cardinality({y \in S : Less(y, x)}) = k - 1]

\* The hash seeds of the interpreter: the order in which a set of strings
\* is iterated depends on the seed of the process.
Seeds == {0, 1}

\* Iterating over a set: some order that the hash seed fixes.
IterationOrder(S, Less(_, _), seed) ==
    IF seed = 0 THEN Ascending(S, Less) ELSE Reverse(Ascending(S, Less))

UnsortedNames(seq) == seq

\* sorted(model_references)  (line 382)
SortedNames(seq) == SortedBy(seq, StrLess)

UnsortedModules(seq) == seq

\* sorted(api_modules)  (lines 248 and 285)
SortedModules(seq) == SortedBy(seq, PairLess)

\* The elements of a sequence.
Range(seq) == {seq[i] : i \in 1..Len(seq)}

(***************************************************************************)
(* The parsed spec tree.  components.schemas and paths are dicts in        *)
(* insertion order: sequences of <<key, value>> pairs with distinct keys.  *)
(***************************************************************************)
\* A schema of components.schemas: `properties` is <<>> (missing) or
\* <<the dict of the property schemas>>, `required` is <<>> (missing) or
\* <<the list of names>>.
SchemaDef(props, req) == [properties |-> props, required |-> req]

\* An operation: `tags` is <<>> (missing) or <<the list of tags>>,
\* `operationId` is <<>> (missing) or <<the string>>, `parameters` is <<>>
\* or <<the list of parameters>>, `requestBody` and `responses` are <<>> or
\* <<the dict>>.
FullOperation(tags, opid, parameters, requestBody, responses) ==
    [tags |-> tags, operationId |-> opid, parameters |-> parameters,
     requestBody |-> requestBody, responses |-> responses]

\* An operation with tags and operationId alone.
Operation(tags, opid) == FullOperation(tags, opid, <<>>, <<>>, <<>>)

\* A parameter: `in` is Absent or the location, `required` is <<>> or
\* <<the flag>>, `schema` is <<>> or <<the schema node>>.
Parameter(param_name, location, required, param_schema) ==
    [name |-> param_name, in |-> location, required |-> required,
     schema |-> param_schema]

\* A `content` dict: `json` is <<>> or <<the application/json media type>>,
\* itself [schema |-> <<>> or <<the schema node>>]; `other` tells whether
\* the dict has another media type.
Content(json, other) == [json |-> json, other |-> other]
MediaType(media_schema) == [schema |-> media_schema]

\* A requestBody dict: `required` is <<>> or <<the flag>>, `content` is <<>>
\* or <<the content dict>>.
RequestBody(required, content) == [required |-> required, content |-> content]

\* A response dict: `described` tells whether it has a description,
\* `content` is <<>> or <<the content dict>>.
Response(described, content) == [described |-> described, content |-> content]

\* A responses dict: the entries of '200' and '201', each <<>> or
\* <<the response dict>>.
Responses(r200, r201) == [r200 |-> r200, r201 |-> r201]

\* key in d, d[key]
HasKey(d, k) == \E i \in 1..Len(d) : d[i][1] = k
Get(d, k) == d[CHOOSE i \in 1..Len(d) : d[i][1] = k][2]

\* schema.get('properties', {})  (line 365)
PropertiesOf(sd) == IF sd.properties = <<>> THEN <<>> ELSE sd.properties[1]

\* schema.get('required', [])  (line 366)
RequiredOf(sd) == IF sd.required = <<>> THEN <<>> ELSE sd.required[1]

(***************************************************************************)
(* _generate_models: the file of one model.                                *)
(***************************************************************************)
RECURSIVE Prescan(_, _)
\* Lines 362-369: the set of references after resolving every property
\* with the set.
Prescan(properties, refs) ==
    IF properties = <<>> THEN refs
    ELSE Prescan(Tail(properties), Call(properties[1][2], TRUE, refs).refs)

NotSelfNever(ref_model, model_name) == TRUE

\* Line 383: ref_model != model_name
NotSelf(ref_model, model_name) == ref_model # model_name

\* Lines 380-385: the import lines of the referenced models, each
\* <<module, class>> for `from .{module} import {class}`.
ReferencedImports(model_name, refs, seed) ==
    LET ordered == SortedNames(IterationOrder(refs, StrLess, seed))
        kept == SelectSeq(ordered, LAMBDA r : NotSelf(r, model_name))
        lines[names \in {kept}] ==
            [i \in 1..Len(names) |-> <<lower(names[i]), names[i]>>]
    IN  lines[kept]

IsRequiredSanitized(prop_name, required) ==
    sanitize_name(prop_name) \in {sanitize_name(r) : r \in Range(required)}

\* Line 401: prop_name in required
IsRequired(prop_name, required) == prop_name \in Range(required)

OptionalOf(prop_type) == <<"Optional[">> \o prop_type \o <<"]">>

\* Lines 397-404: the line of one property; `default` is <<>> when the
\* line has none.
FieldLine(prop_name, prop_type, required) ==
    LET python_name == sanitize_name(prop_name)
    IN  IF IsRequired(prop_name, required)
        THEN [name |-> python_name, annotation |-> prop_type, default |-> <<>>]
        ELSE [name |-> python_name, annotation |-> OptionalOf(prop_type),
              default |-> <<"None">>]

\* Lines 397-399: the line of the property prop = <<name, schema>>, its type
\* resolved without a set.
Field(prop, required) == FieldLine(prop[1], Call(prop[2], FALSE, {}).ret, required)

\* Lines 371-408: the text written to the file of one model.
ModelFile(schema_name, sd, seed) ==
    LET model_name == sanitize_name(schema_name)
        properties == PropertiesOf(sd)
        required == RequiredOf(sd)
        refs == Prescan(properties, {})
    IN  [kind |-> "model",
         doc |-> schema_name,
         imports_header |-> refs # {},
         imports |-> ReferencedImports(model_name, refs, seed),
         class |-> model_name,
         fields |-> [i \in 1..Len(properties) |-> Field(properties[i], required)],
         pass |-> properties = <<>>]

Path(dir, file) == [dir |-> dir, file |-> file]

\* Line 359: os.path.join(models_dir, f"{model_name.lower()}.py")
ModelPath(model_name) == Path("package/models", lower(model_name) \o <<".py">>)

\* Lines 349-354: models/__init__.py, one import line per schema.
ModelsInit(schemas) ==
    [kind |-> "models_init",
     imports |-> [i \in 1..Len(schemas) |->
                    LET model_name == sanitize_name(schemas[i][1])
                    IN  <<lower(model_name), model_name>>]]

\* The writes of _generate_models, in the order they are made.
ModelWrites(schemas, seed) ==
    <<[path |-> Path("package/models", <<"__init__.py">>), content |-> ModelsInit(schemas)]>>
    \o [i \in 1..Len(schemas) |->
            [path |-> ModelPath(sanitize_name(schemas[i][1])),
             content |-> ModelFile(schemas[i][1], schemas[i][2], seed)]]

(***************************************************************************)
(* Operations and tags.                                                    *)
(***************************************************************************)
\* The method list of lines 240, 422 and 993.
Methods == <<"get", "post", "put", "delete", "patch">>

DefaultTag == <<"d", "e", "f", "a", "u", "l", "t">>

TagsOfFirstOnly(operation) ==
    IF operation.tags = <<>> THEN <<DefaultTag>>
    ELSE IF operation.tags[1] = <<>> THEN <<>>
    ELSE <<operation.tags[1][1]>>

\* operation.get('tags', ['default'])  (lines 243, 425, 996)
TagsOf(operation) == IF operation.tags = <<>> THEN <<DefaultTag>> ELSE operation.tags[1]

\* Lines 244, 440: self._sanitize_name(tag).lower()
module_name_of(tag) == lower(sanitize_name(tag))

\* Lines 245, 441: self._sanitize_name(tag).capitalize() + 'Api'
class_name_of(tag) == capitalize(sanitize_name(tag)) \o <<"A", "p", "i">>

ItemEntriesAsDeclared(path, path_item) ==
    [i \in 1..Len(path_item) |->
        [path |-> path, method |-> path_item[i][1], operation |-> path_item[i][2]]]

\* The operations of one path item, in the order of the method list.
ItemEntries(path, path_item) ==
    LET present == SelectSeq(Methods, LAMBDA m : HasKey(path_item, m))
    IN  [i \in 1..Len(present) |->
            [path |-> path, method |-> present[i],
             operation |-> Get(path_item, present[i])]]

RECURSIVE Entries(_)
\* The loops of lines 239-242, 421-424 and 992-995: every (path, method)
\* pair of the spec, paths in insertion order.
Entries(paths) ==
    IF paths = <<>> THEN <<>>
    ELSE ItemEntries(paths[1][1], paths[1][2]) \o Entries(Tail(paths))

\* Line 243 raises IndexError on an operation whose `tags` is an empty list.
ClientModuleRaises(paths) ==
    \E i \in 1..Len(Entries(paths)) : TagsOf(Entries(paths)[i].operation) = <<>>

\* Lines 237-246: the set api_modules.
ApiModulesOf(paths) ==
    {<<module_name_of(TagsOf(e.operation)[1]), class_name_of(TagsOf(e.operation)[1])>> :
        e \in Range(Entries(paths))}

\* Lines 221-336: client.py; `imports` are the lines 248-249 and `attributes`
\* the lines 285-286, both over sorted(api_modules).
ClientModule(paths, seed) ==
    LET api_modules == ApiModulesOf(paths)
        ordered == SortedModules(IterationOrder(api_modules, PairLess, seed))
    IN  [kind |-> "client", complete |-> TRUE, imports |-> ordered, attributes |-> ordered]

\* client.py as it is left when line 243 raises: the header of lines 222-233.
ClientModuleHeader ==
    [kind |-> "client", complete |-> FALSE, imports |-> <<>>, attributes |-> <<>>]

RECURSIVE TagEntries(_)
\* Lines 427-436: each operation once for each of its tags.
TagEntries(entries) ==
    IF entries = <<>> THEN <<>>
    ELSE LET e == entries[1]
             tags == TagsOf(e.operation)
         IN  [i \in 1..Len(tags) |-> <<tags[i], e>>] \o TagEntries(Tail(entries))

RECURSIVE FirstSeen(_)
\* The keys of tags_operations in insertion order.
FirstSeen(tags) ==
    IF tags = <<>> THEN <<>>
    ELSE LET before == FirstSeen(SubSeq(tags, 1, Len(tags) - 1))
             t == tags[Len(tags)]
         IN  IF t \in Range(before) THEN before ELSE Append(before, t)

\* Lines 418-436: tags_operations, a dict in insertion order.
TagsOperations(paths) ==
    LET pairs == TagEntries(Entries(paths))
        tags == FirstSeen([i \in 1..Len(pairs) |-> pairs[i][1]])
    IN  [k \in 1..Len(tags) |->
            LET mine == SelectSeq(pairs, LAMBDA p : p[1] = tags[k])
            IN  <<tags[k], [i \in 1..Len(mine) |-> mine[i][2]]>>]

HasOperationIdPresent(e) == e.operation.operationId # <<>>

\* Lines 465 and 1040: op.get('operation_id') is truthy.
HasOperationId(e) == e.operation.operationId # <<>> /\ e.operation.operationId[1] # <<>>

\* operation.get('parameters', [])  (lines 474 and 1049)
ParametersOf(operation) ==
    IF operation.parameters = <<>> THEN <<>> ELSE operation.parameters[1]

ParamsInOrElsewhere(operation, location) ==
    SelectSeq(ParametersOf(operation),
              LAMBDA p : p.in = location
                         \/ (location = "query" /\ p.in \notin {"path", "header"}))

\* [p for p in parameters if p.get('in') == location]  (lines 475-477)
ParamsIn(operation, location) ==
    SelectSeq(ParametersOf(operation), LAMBDA p : p.in = location)

\* param.get('schema', {})  (lines 500, 506, 1061)
ParamSchema(param) == IF param.schema = <<>> THEN EmptySchema ELSE param.schema[1]

RequiredFlagUnlessFalse(d) == d.required = <<>> \/ d.required[1]

\* param.get('required', False), request_body.get('required', False)
RequiredFlag(d) == d.required # <<>> /\ d.required[1]

\* Lines 480-481: request_body.get('content', {}), the empty content dict
\* when there is no requestBody or no content.
EmptyContent == Content(<<>>, FALSE)
RequestContent(operation) ==
    IF operation.requestBody = <<>> \/ operation.requestBody[1].content = <<>>
    THEN EmptyContent
    ELSE operation.requestBody[1].content[1]

\* 'application/json' in content
HasJson(content) == content.json # <<>>

\* content['application/json'].get('schema', {})
JsonSchema(content) ==
    IF content.json[1].schema = <<>> THEN EmptySchema ELSE content.json[1].schema[1]

\* A response dict is truthy when it has a key.
ResponseTruthy(r) == r.described \/ r.content # <<>>

\* Lines 484-486: responses.get('200', {}) or responses.get('201', {}), then
\* its content.
ResponseContent(operation) ==
    LET responses == IF operation.responses = <<>> THEN Responses(<<>>, <<>>)
                     ELSE operation.responses[1]
        success_response ==
            IF responses.r200 # <<>> /\ ResponseTruthy(responses.r200[1])
            THEN responses.r200
            ELSE responses.r201
    IN  IF success_response = <<>> \/ success_response[1].content = <<>>
        THEN EmptyContent
        ELSE success_response[1].content[1]

\* Lines 489-492: the return type.
ReturnType(operation) ==
    IF HasJson(ResponseContent(operation))
    THEN Call(JsonSchema(ResponseContent(operation)), FALSE, {}).ret
    ELSE <<"Any">>

\* One parameter of a signature; `default` is <<>> when it has none.
Argument(arg_name, annotation, required) ==
    IF required THEN [name |-> arg_name, annotation |-> annotation, default |-> <<>>]
    ELSE [name |-> arg_name, annotation |-> OptionalOf(annotation),
          default |-> <<"None">>]

\* Lines 498-502: the path parameters of the signature.
PathArguments(operation) ==
    LET path_params == ParamsIn(operation, "path")
    IN  [i \in 1..Len(path_params) |->
            Argument(sanitize_name(path_params[i].name),
                     Call(ParamSchema(path_params[i]), FALSE, {}).ret, TRUE)]

\* Lines 505-513: the query parameters of the signature.
QueryArguments(operation) ==
    LET query_params == ParamsIn(operation, "query")
    IN  [i \in 1..Len(query_params) |->
            Argument(sanitize_name(query_params[i].name),
                     Call(ParamSchema(query_params[i]), FALSE, {}).ret,
                     RequiredFlag(query_params[i]))]

\* Lines 516-525: the body parameter of the signature.
BodyArguments(operation) ==
    IF RequestContent(operation) # EmptyContent /\ HasJson(RequestContent(operation))
    THEN <<Argument(<<"data">>,
                    Call(JsonSchema(RequestContent(operation)), FALSE, {}).ret,
                    RequiredFlag(operation.requestBody[1]))>>
    ELSE <<>>

\* Lines 528-535: the header parameters of the signature.
HeaderArguments(operation) ==
    LET header_params == ParamsIn(operation, "header")
    IN  [i \in 1..Len(header_params) |->
            Argument(sanitize_name(header_params[i].name), <<"str">>,
                     RequiredFlag(header_params[i]))]

RECURSIVE Replace(_, _, _)
\* str.replace(old, new): every occurrence of the non-empty old, from the
\* left, without overlap.
Replace(s, old, new) ==
    IF Len(s) < Len(old) THEN s
    ELSE IF SubSeq(s, 1, Len(old)) = old
         THEN new \o Replace(SubSeq(s, Len(old) + 1, Len(s)), old, new)
         ELSE <<s[1]>> \o Replace(Tail(s), old, new)

\* f"{{{name}}}"
Placeholder(param_name) == <<"{">> \o param_name \o <<"}">>

RECURSIVE FormattedPath(_, _)
\* Lines 567-574: {name} becomes {sanitized name}, one path parameter after
\* the other.
FormattedPath(path, path_params) ==
    IF path_params = <<>> THEN path
    ELSE FormattedPath(Replace(path, Placeholder(path_params[1].name),
                               Placeholder(sanitize_name(path_params[1].name))),
                       Tail(path_params))

\* Lines 580-597: the entries of params or of headers, each
\* <<key, argument>>.
Forwarded(params) ==
    [i \in 1..Len(params) |-> <<params[i].name, sanitize_name(params[i].name)>>]

\* Lines 468-610: the method written for one operation.
ApiMethod(e) ==
    [name |-> sanitize_name(e.operation.operationId[1]),
     method |-> e.method,
     path |-> e.path,
     arguments |-> PathArguments(e.operation) \o QueryArguments(e.operation)
                   \o BodyArguments(e.operation) \o HeaderArguments(e.operation),
     return_type |-> ReturnType(e.operation),
     documented |-> [i \in 1..Len(ParamsIn(e.operation, "path")) |->
                        sanitize_name(ParamsIn(e.operation, "path")[i].name)]
                    \o [i \in 1..Len(ParamsIn(e.operation, "query")) |->
                        sanitize_name(ParamsIn(e.operation, "query")[i].name)]
                    \o (IF HasJson(RequestContent(e.operation)) THEN <<<<"data">>>>
                        ELSE <<>>)
                    \o [i \in 1..Len(ParamsIn(e.operation, "header")) |->
                        sanitize_name(ParamsIn(e.operation, "header")[i].name)],
     template |-> FormattedPath(e.path, ParamsIn(e.operation, "path")),
     params |-> Forwarded(ParamsIn(e.operation, "query")),
     headers |-> Forwarded(ParamsIn(e.operation, "header")),
     json |-> HasJson(RequestContent(e.operation)),
     returns_json |-> HasJson(ResponseContent(e.operation))]

\* Lines 444-610: the text written to the file of one tag.
ApiModuleFile(tag, operations) ==
    LET named == SelectSeq(operations, HasOperationId)
    IN  [kind |-> "api",
         tag |-> tag,
         class |-> class_name_of(tag),
         methods |-> [i \in 1..Len(named) |-> ApiMethod(named[i])]]

\* Line 442: os.path.join(api_dir, f"{module_name}.py")
ApiPath(tag) == Path("package/api", module_name_of(tag) \o <<".py">>)

\* The writes of _generate_api_modules, in the order they are made.
ApiWrites(paths) ==
    LET tags_operations == TagsOperations(paths)
    IN  [k \in 1..Len(tags_operations) |->
            [path |-> ApiPath(tags_operations[k][1]),
             content |-> ApiModuleFile(tags_operations[k][1], tags_operations[k][2])]]

(***************************************************************************)
(* _generate_tests.                                                        *)
(***************************************************************************)
\* prop_schema.get('type', 'string')  (lines 933 and 957)
PropSampleType(prop_schema) ==
    IF prop_schema.type = Absent THEN "string" ELSE prop_schema.type

\* Lines 935-946 and 959-970: the sample value of a property, <<>> when its
\* type is none of the six.
PropSample(prop_name, prop_schema) ==
    LET prop_type == PropSampleType(prop_schema)
    IN  IF prop_type = "string"
        THEN <<[kind |-> "str", text |-> <<"test_">> \o prop_name]>>
        ELSE IF prop_type = "integer" THEN <<[kind |-> "int", text |-> <<"123">>]>>
        ELSE IF prop_type = "number" THEN <<[kind |-> "float", text |-> <<"123.45">>]>>
        ELSE IF prop_type = "boolean" THEN <<[kind |-> "bool", text |-> <<"True">>]>>
        ELSE IF prop_type = "array" THEN <<[kind |-> "list", text |-> <<"[]">>]>>
        ELSE IF prop_type = "object" THEN <<[kind |-> "dict", text |-> <<"{}">>]>>
        ELSE <<>>

RECURSIVE InitArgs(_, _)
\* Lines 929-948: init_args, one keyword argument for each name of
\* `required`, whose schema is properties.get(prop_name, {}).
InitArgs(properties, required) ==
    IF required = <<>> THEN <<>>
    ELSE LET prop_name == required[1]
             prop_schema == IF HasKey(properties, prop_name)
                            THEN Get(properties, prop_name) ELSE EmptySchema
             sample == PropSample(prop_name, prop_schema)
         IN  (IF sample = <<>> THEN <<>>
              ELSE <<[name |-> sanitize_name(prop_name), value |-> sample[1]]>>)
             \o InitArgs(properties, Tail(required))

RECURSIVE ModelAssertions(_, _)
\* Lines 953-972: the assertions, in the order of the declared properties;
\* `expects` is <<>> for assertIsNone.
ModelAssertions(properties, required) ==
    IF properties = <<>> THEN <<>>
    ELSE LET prop_name == properties[1][1]
             prop_var == sanitize_name(prop_name)
             sample == PropSample(prop_name, properties[1][2])
         IN  (IF prop_name \in Range(required)
              THEN IF sample = <<>> THEN <<>>
                   ELSE <<[field |-> prop_var, expects |-> sample]>>
              ELSE <<[field |-> prop_var, expects |-> <<>>]>>)
             \o ModelAssertions(Tail(properties), required)

\* Lines 918-974: the test method of one schema.
ModelTest(schema_name, sd) ==
    [name |-> lower(sanitize_name(schema_name)),
     model |-> sanitize_name(schema_name),
     init_args |-> InitArgs(PropertiesOf(sd), RequiredOf(sd)),
     assertions |-> ModelAssertions(PropertiesOf(sd), RequiredOf(sd))]

\* Lines 902-980: tests/test_models.py, one test method per schema.
ModelTests(schemas) ==
    [kind |-> "test_models",
     tests |-> [i \in 1..Len(schemas) |-> ModelTest(schemas[i][1], schemas[i][2])]]

\* param_schema.get('type', 'string')  (lines 1062 and 1102)
SampleType(param) ==
    IF ParamSchema(param).type = Absent THEN "string" ELSE ParamSchema(param).type

\* Lines 1064-1071: the keyword argument of the call for a path parameter:
\* a str "test_<name>", the int 123 or the float 123.45.
CallSample(param) ==
    IF SampleType(param) = "integer" THEN [kind |-> "int", text |-> <<"123">>]
    ELSE IF SampleType(param) = "number" THEN [kind |-> "float", text |-> <<"123.45">>]
    ELSE [kind |-> "str", text |-> <<"test_">> \o sanitize_name(param.name)]

\* Lines 1104-1111: the text put in the expected path for a path parameter.
UrlSample(param) ==
    IF SampleType(param) = "integer" THEN <<"123">>
    ELSE IF SampleType(param) = "number" THEN <<"123.45">>
    ELSE <<"test_">> \o sanitize_name(param.name)

\* Lines 1058-1076: method_params, the keyword arguments of the call.
MethodParams(operation) ==
    LET path_params == ParamsIn(operation, "path")
    IN  [i \in 1..Len(path_params) |->
            [name |-> sanitize_name(path_params[i].name),
             value |-> CallSample(path_params[i])]]
        \o (IF HasJson(RequestContent(operation))
                /\ RequiredFlag(operation.requestBody[1])
            THEN <<[name |-> <<"data">>, value |-> [kind |-> "dict", text |-> <<"test">>]]>>
            ELSE <<>>)

RECURSIVE ExpectedPath(_, _)
\* Lines 1098-1111: every {name} of the path replaced by the sample text,
\* one path parameter after the other.
ExpectedPath(path, path_params) ==
    IF path_params = <<>> THEN path
    ELSE ExpectedPath(Replace(path, Placeholder(path_params[1].name),
                              UrlSample(path_params[1])),
                      Tail(path_params))

\* Lines 1079-1122: the test method of one operation; `url` is <<>> when no
\* URL is asserted, `json` tells whether the body is asserted.
ApiTest(e) ==
    [name |-> sanitize_name(e.operation.operationId[1]),
     method |-> e.method,
     call |-> MethodParams(e.operation),
     url |-> IF ParamsIn(e.operation, "path") # <<>>
             THEN <<ExpectedPath(e.path, ParamsIn(e.operation, "path"))>>
             ELSE <<>>,
     json |-> HasJson(RequestContent(e.operation))
              /\ RequiredFlag(e.operation.requestBody[1])]

\* Lines 1019-1128: the test file of one tag, one test method per named
\* operation.
ApiTestFile(tag, operations) ==
    LET named == SelectSeq(operations, HasOperationId)
    IN  [kind |-> "test_api",
         tag |-> tag,
         class |-> <<"T", "e", "s", "t">> \o class_name_of(tag),
         module |-> module_name_of(tag),
         tests |-> [i \in 1..Len(named) |-> ApiTest(named[i])]]

\* Line 1017: os.path.join(tests_dir, f'test_{module_name}_api.py')
ApiTestPath(tag) == Path("tests", <<"test_">> \o module_name_of(tag) \o <<"_api.py">>)

Fixed(kind) == [kind |-> kind]

\* The writes of _generate_tests (lines 793-802), in the order they are made;
\* test_models.py is not written when there is no schema (lines 898-899).
TestWrites(schemas, paths) ==
    LET tags_operations == TagsOperations(paths)
    IN  <<[path |-> Path("tests", <<"test_client.py">>), content |-> Fixed("test_client")]>>
        \o (IF schemas = <<>> THEN <<>>
            ELSE <<[path |-> Path("tests", <<"test_models.py">>),
                    content |-> ModelTests(schemas)]>>)
        \o [k \in 1..Len(tags_operations) |->
                [path |-> ApiTestPath(tags_operations[k][1]),
                 content |-> ApiTestFile(tags_operations[k][1], tags_operations[k][2])]]
        \o <<[path |-> Path("tests", <<"conftest.py">>), content |-> Fixed("conftest")]>>

\* The writes of _create_package_structure (lines 193-211).
StructureWrites ==
    <<[path |-> Path("package", <<"__init__.py">>), content |-> Fixed("package_init")],
      [path |-> Path("package/models", <<"__init__.py">>),
       content |-> [kind |-> "models_init", imports |-> <<>>]],
      [path |-> Path("package/api", <<"__init__.py">>), content |-> Fixed("api_init")],
      [path |-> Path("tests", <<"__init__.py">>), content |-> Fixed("tests_init")]>>

RECURSIVE WriteAll(_, _)
\* open(path, 'w') and write: the file is created or replaced.
WriteAll(fs, writes) ==
    IF writes = <<>> THEN fs
    ELSE LET w == writes[1]
             next == [p \in DOMAIN fs \cup {w.path} |->
                        IF p = w.path THEN w.content ELSE fs[p]]
         IN  WriteAll(next, Tail(writes))
(***************************************************************************)
(* Spec: generate() on an arbitrary spec tree, run twice in two processes. *)
(***************************************************************************)
MaxProps == 2

\* An optional key of a dict: missing, or present with a value.
Missing == <<>>
Present(v) == <<v>>

SchemaNames == {<<"A">>, <<"a", ".", "b">>, <<"b">>}
PropNames == {<<"a">>, <<"a", ".", "b">>, <<"a", "_", "b">>}

StringNode == Node("string", Absent, Missing, FALSE, Missing, FALSE)
RefANode == Node(Absent, Absent, Missing, FALSE, Present(RefA), FALSE)
RefDottedNode == Node(Absent, Absent, Missing, FALSE, Present(RefDotted), FALSE)
ArrayOf(item) == Node("array", Absent, Present(item), FALSE, Missing, FALSE)
RefAObjectNode == Node("object", Absent, Missing, FALSE, Present(RefA), FALSE)

PropNodes ==
    {StringNode, RefANode, ArrayOf(RefDottedNode), RefAObjectNode}

DistinctKeys(d) == \A i, j \in 1..Len(d) : i # j => d[i][1] # d[j][1]

\* The dicts of at most n properties, in every insertion order.
PropertyDicts(n) ==
    {d \in UNION {[1..m -> PropNames \X PropNodes] : m \in 0..n} : DistinctKeys(d)}

RequiredLists ==
    {Missing, Present(<<>>), Present(<<<<"a", "_", "b">>>>),
     Present(<<<<"a", ".", "b">>, <<"b">>>>)}

SchemaDefs ==
    {SchemaDef(p, r) :
        p \in {Missing} \cup {Present(d) : d \in PropertyDicts(MaxProps)},
        r \in RequiredLists}

SmallSchemaDefs == {SchemaDef(Present(d), Missing) : d \in PropertyDicts(1)}

Registries ==
    {<<>>}
    \cup {<<<<n, d>>>> : n \in {<<"A">>, <<"b">>}, d \in SchemaDefs}
    \cup {r \in [1..2 -> SchemaNames \X SmallSchemaDefs] : DistinctKeys(r)}

TagNames == {<<"a">>, <<"A">>, <<"b">>}

TagLists ==
    {Missing, Present(<<>>)}
    \cup {Present(<<t>>) : t \in TagNames}
    \cup {Present(<<t1, t2>>) : t1 \in TagNames, t2 \in TagNames \ {<<"A">>}}

OperationIds == {Missing, Present(<<>>), Present(<<"g">>), Present(<<"g", ".", "1">>)}

Operations == {Operation(t, o) : t \in TagLists, o \in OperationIds}

SmallOperations ==
    {Operation(Present(<<t>>), o) :
        t \in {<<"a">>, <<"b">>}, o \in {Missing, Present(<<"g">>)}}

PathItems ==
    {<<<<m, op>>>> : m \in {"get", "patch"}, op \in Operations}
    \cup {<<<<"post", op1>>, <<"get", op2>>>> :
            op1 \in SmallOperations, op2 \in SmallOperations}

SmallPathItems ==
    {<<<<"get", Operation(t, o)>>>> :
        t \in {Missing, Present(<<>>), Present(<<<<"a">>>>), Present(<<<<"b">>>>),
               Present(<<<<"a">>, <<"b">>>>)},
        o \in {Missing, Present(<<"g">>)}}

PathA == <<"/", "a">>
PathB == <<"/", "b">>

PathDicts ==
    {<<>>}
    \cup {<<<<PathA, i>>>> : i \in PathItems}
    \cup {<<<<PathB, i>>, <<PathA, j>>>> : i \in SmallPathItems, j \in SmallPathItems}

\* self.spec: the two parts of the tree that generation reads.
SpecTree(schemas, paths) == [schemas |-> schemas, paths |-> paths]

\* Schema b with the properties a (a reference to A) and a.b (an array of
\* references to a.b).
OneSchema ==
    <<<<<<"b">>,
        SchemaDef(Present(<<<<<<"a">>, RefANode>>,
                            <<<<"a", ".", "b">>, ArrayOf(RefDottedNode)>>>>),
                  Missing)>>>>

\* Path /a with GET tagged b and POST tagged a, both named g.
OnePath ==
    <<<<PathA, <<<<"get", Operation(Present(<<<<"b">>>>), Present(<<"g">>))>>,
                 <<"post", Operation(Present(<<<<"a">>>>), Present(<<"g">>))>>>>>>>>

IntegerNode == Node("integer", Absent, Missing, FALSE, Missing, FALSE)

\* Path /a/{a.b}
PathWithParam == <<"/", "a", "/", "{", "a", ".", "b", "}">>

\* Operations named g with several tags, a path parameter a.b, a query
\* parameter, a request body and a response.
RichOperations ==
    {FullOperation(Present(t), Present(<<"g">>),
                   Present(<<Parameter(<<"a", ".", "b">>, "path", Present(TRUE),
                                       Present(IntegerNode)),
                             Parameter(<<"b">>, "query", q, Missing)>>),
                   Present(RequestBody(q, Present(Content(Present(MediaType(Present(n))),
                                                          FALSE)))),
                   Present(Responses(Present(Response(TRUE,
                                        Present(Content(Present(MediaType(Present(n))),
                                                        FALSE)))),
                                     Missing))) :
        t \in {<<<<"a">>, <<"b">>>>, <<<<"b">>, <<"A">>, <<"a">>>>},
        q \in {Missing, Present(TRUE)},
        n \in {RefANode, ArrayOf(StringNode)}}

RichPathDicts ==
    {<<<<PathWithParam, <<<<"put", op>>>>>>, <<PathA, i>>>> :
        op \in RichOperations,
        i \in {<<<<"get", Operation(Present(<<<<"b">>>>), o)>>>> :
                 o \in {Missing, Present(<<"g">>)}}}

\* Path /b declared before path /a, each with its methods declared in an
\* order other than that of the method list: /b with POST tagged a, then GET
\* tagged b and a; /a with PATCH, then GET, both tagged a.
UnorderedPaths ==
    <<<<PathB, <<<<"post", Operation(Present(<<<<"a">>>>), Present(<<"g">>))>>,
                 <<"get", Operation(Present(<<<<"b">>, <<"a">>>>), Present(<<"g">>))>>>>>>,
      <<PathA, <<<<"patch", Operation(Present(<<<<"a">>>>), Present(<<"g">>))>>,
                 <<"get", Operation(Present(<<<<"a">>>>), Present(<<"g">>))>>>>>>>>

SpecTrees ==
    {SpecTree(r, OnePath) : r \in Registries}
    \cup {SpecTree(OneSchema, p) : p \in PathDicts \cup RichPathDicts \cup {UnorderedPaths}}

Init ==
    /\ pc = "structure"
    /\ spec \in SpecTrees
    /\ hash_seed \in Seeds
    /\ files = <<>>
    /\ written = <<>>
    /\ run = 1
    /\ first_output = <<>>
    /\ IdleSanitize
    /\ IdleType
    /\ IdleResolve
    /\ IdleCli

\* The writes of one step of generate() reach the output directory.
Emit(writes) ==
    \E ws \in {writes} :
        /\ files' = WriteAll(files, ws)
        /\ written' = written \o ws

\* ClientGenerator._create_package_structure
CreatePackageStructure ==
    /\ pc = "structure"
    /\ Emit(StructureWrites)
    /\ pc' = "client"
    /\ UNCHANGED <<spec, hash_seed, run, first_output, sanVars, typeVars, resolveVars, cliVars>>

\* ClientGenerator._generate_client_module
GenerateClientModule ==
    /\ pc = "client"
    /\ IF ClientModuleRaises(spec.paths)
       THEN /\ Emit(<<[path |-> Path("package", <<"client.py">>),
                       content |-> ClientModuleHeader]>>)
            /\ pc' = "error"
       ELSE /\ Emit(<<[path |-> Path("package", <<"client.py">>),
                       content |-> ClientModule(spec.paths, hash_seed)]>>)
            /\ pc' = "models"
    /\ UNCHANGED <<spec, hash_seed, run, first_output, sanVars, typeVars, resolveVars, cliVars>>

\* ClientGenerator._generate_models
GenerateModels ==
    /\ pc = "models"
    /\ Emit(ModelWrites(spec.schemas, hash_seed))
    /\ pc' = "api"
    /\ UNCHANGED <<spec, hash_seed, run, first_output, sanVars, typeVars, resolveVars, cliVars>>

\* ClientGenerator._generate_api_modules
GenerateApiModules ==
    /\ pc = "api"
    /\ Emit(ApiWrites(spec.paths))
    /\ pc' = "tests"
    /\ UNCHANGED <<spec, hash_seed, run, first_output, sanVars, typeVars, resolveVars, cliVars>>

\* ClientGenerator._generate_tests
GenerateTests ==
    /\ pc = "tests"
    /\ Emit(TestWrites(spec.schemas, spec.paths))
    /\ pc' = "setup"
    /\ UNCHANGED <<spec, hash_seed, run, first_output, sanVars, typeVars, resolveVars, cliVars>>

\* ClientGenerator._generate_setup_py
GenerateSetupPy ==
    /\ pc = "setup"
    /\ Emit(<<[path |-> Path("", <<"setup.py">>), content |-> Fixed("setup")]>>)
    /\ pc' = "readme"
    /\ UNCHANGED <<spec, hash_seed, run, first_output, sanVars, typeVars, resolveVars, cliVars>>

\* ClientGenerator._generate_readme, and the return of generate()
GenerateReadme ==
    /\ pc = "readme"
    /\ Emit(<<[path |-> Path("", <<"README.md">>), content |-> Fixed("readme")]>>)
    /\ pc' = "done"
    /\ UNCHANGED <<spec, hash_seed, run, first_output, sanVars, typeVars, resolveVars, cliVars>>

\* generate_client_from_spec is called again on the same spec tree, in a
\* new process and with an empty output directory.
Regenerate ==
    /\ pc \in {"done", "error"}
    /\ run = 1
    /\ first_output' = files
    /\ files' = <<>>
    /\ written' = <<>>
    /\ run' = 2
    /\ hash_seed' \in Seeds
    /\ pc' = "structure"
    /\ UNCHANGED <<spec, sanVars, typeVars, resolveVars, cliVars>>

Next ==
    \/ CreatePackageStructure
    \/ GenerateClientModule
    \/ GenerateModels
    \/ GenerateApiModules
    \/ GenerateTests
    \/ GenerateSetupPy
    \/ GenerateReadme
    \/ Regenerate

Spec == Init /\ [][Next]_vars

(***************************************************************************)
(* SpecApi: generate() on spec trees with one operation whose parameters,  *)
(* request body and responses vary.                                        *)
(***************************************************************************)
\* Path /{a}/{a.b}
PathTwoParams == <<"/", "{", "a", "}", "/", "{", "a", ".", "b", "}">>

JsonContent(n) == Present(Content(Present(MediaType(n)), FALSE))

\* The values of a '200' or '201' entry: no entry, the empty dict, a
\* description alone, content without application/json, and JSON content
\* with and without a schema, with and without a description.
ResponseShapes ==
    {Missing,
     Present(Response(FALSE, Missing)),
     Present(Response(TRUE, Missing)),
     Present(Response(TRUE, Present(Content(Missing, TRUE)))),
     Present(Response(TRUE, JsonContent(Missing))),
     Present(Response(TRUE, JsonContent(Present(RefANode)))),
     Present(Response(FALSE, JsonContent(Present(ArrayOf(StringNode)))))}

CreatedShapes ==
    {Missing,
     Present(Response(TRUE, Missing)),
     Present(Response(TRUE, JsonContent(Present(IntegerNode)))),
     Present(Response(TRUE, JsonContent(Present(RefDottedNode))))}

ResponsesShapes ==
    {Missing} \cup {Present(Responses(x, y)) : x \in ResponseShapes, y \in CreatedShapes}

RequiredFlags == {Missing, Present(FALSE), Present(TRUE)}

\* The values of requestBody: no entry, no content, an empty content dict,
\* content without application/json, and JSON content with and without a
\* schema, alone or beside another media type.
BodyShapes ==
    {Missing}
    \cup {Present(RequestBody(q, c)) :
            q \in RequiredFlags,
            c \in {Missing,
                   Present(Content(Missing, FALSE)),
                   Present(Content(Missing, TRUE)),
                   JsonContent(Missing),
                   JsonContent(Present(RefANode)),
                   Present(Content(Present(MediaType(Present(ArrayOf(IntegerNode)))),
                                   TRUE))}}

\* Parameters in the three kept locations, in `cookie` and without a
\* location.
ParameterPool ==
    {Parameter(<<"a", ".", "b">>, "path", Present(TRUE), Present(IntegerNode)),
     Parameter(<<"a">>, "path", Present(TRUE), Missing),
     Parameter(<<"b">>, "query", Missing, Present(ArrayOf(RefANode))),
     Parameter(<<"b", "-", "1">>, "query", Present(TRUE), Missing),
     Parameter(<<"1">>, "query", Present(FALSE), Present(StringNode)),
     Parameter(<<"A", "-", "b">>, "header", Missing, Missing),
     Parameter(<<"A">>, "header", Present(TRUE), Present(IntegerNode)),
     Parameter(<<"b">>, "cookie", Present(TRUE), Present(StringNode)),
     Parameter(<<"a">>, Absent, Present(TRUE), Present(StringNode))}

MaxParams == 2

ParameterLists ==
    {ps \in UNION {[1..n -> ParameterPool] : n \in 0..MaxParams} :
        \A i, j \in 1..Len(ps) : ps[i] = ps[j] => i = j}

BaseParameters ==
    <<Parameter(<<"a", ".", "b">>, "path", Present(TRUE), Present(IntegerNode)),
      Parameter(<<"a">>, "path", Present(TRUE), Missing)>>

ApiOperations ==
    {FullOperation(Present(<<<<"a">>>>), Present(<<"g">>), Present(ps), Missing, Missing) :
        ps \in ParameterLists}
    \cup {FullOperation(Present(<<<<"a">>>>), Present(<<"g">>), Present(BaseParameters),
                        b, r) :
            b \in BodyShapes, r \in ResponsesShapes}
    \cup {FullOperation(Present(<<>>), Present(<<"g">>), Missing, Missing, Missing)}

ApiSpecTrees ==
    {SpecTree(OneSchema, <<<<PathTwoParams, <<<<"post", op>>>>>>>>) : op \in ApiOperations}

InitApi ==
    /\ pc = "structure"
    /\ spec \in ApiSpecTrees
    /\ hash_seed \in Seeds
    /\ files = <<>>
    /\ written = <<>>
    /\ run = 1
    /\ first_output = <<>>
    /\ IdleSanitize
    /\ IdleType
    /\ IdleResolve
    /\ IdleCli

SpecApi == InitApi /\ [][Next]_vars

(***************************************************************************)
(* SpecResolve: _generate_models step by step, every call and return of    *)
(* _get_python_type a step of its own.  `stack` holds the schema node of   *)
(* each active call; `returned` is <<>> or <<the value just returned>>.    *)
(***************************************************************************)
\* The interpreter's recursion limit, scaled down.
MaxFrames == 5

CalleeFollowsRef(s) ==
    IF ~IsFalsy(s) /\ ~IsScalarType(s) /\ s.type = "array" THEN <<ItemsOf(s)>>
    ELSE IF HasRef(s) /\ \E i \in 1..Len(spec.schemas) :
                            /\ sanitize_name(spec.schemas[i][1]) = RefModelName(s)
                            /\ PropertiesOf(spec.schemas[i][2]) # <<>>
         THEN LET i == CHOOSE i \in 1..Len(spec.schemas) :
                            /\ sanitize_name(spec.schemas[i][1]) = RefModelName(s)
                            /\ PropertiesOf(spec.schemas[i][2]) # <<>>
              IN  <<PropertiesOf(spec.schemas[i][2])[1][2]>>
         ELSE <<>>

\* Lines 98-120: the schema a call on s resolves recursively, <<>> when it
\* makes no recursive call.  The only recursive call is the one of line 120.
Callee(s) ==
    IF ~IsFalsy(s) /\ ~IsScalarType(s) /\ s.type = "array" THEN <<ItemsOf(s)>> ELSE <<>>

CurrentSchema == spec.schemas[schema_index]
CurrentProperties == PropertiesOf(CurrentSchema[2])

\* Property dicts whose nodes are references, arrays of references and
\* nested arrays, so that the schemas A and a.b (sanitized a_b) refer to
\* themselves and to each other.
ResolvePropertyDicts ==
    {<<>>}
    \cup {<<<<<<"a">>, n>>>> :
            n \in {StringNode, RefANode, ArrayOf(RefDottedNode), ArrayOf(ArrayOf(RefANode))}}
    \cup {<<<<<<"a">>, n1>>, <<<<"a", ".", "b">>, n2>>>> :
            n1 \in {RefANode, ArrayOf(RefDottedNode)},
            n2 \in {RefDottedNode, ArrayOf(ArrayOf(RefANode))}}

ResolveSchemaDefs ==
    {SchemaDef(Missing, Missing)}
    \cup {SchemaDef(Present(d), Missing) : d \in ResolvePropertyDicts}

ResolveRegistries ==
    {<<>>}
    \cup {<<<<n, d>>>> : n \in {<<"A">>, <<"a", ".", "b">>}, d \in ResolveSchemaDefs}
    \cup {r \in [1..2 -> {<<"A">>, <<"a", ".", "b">>} \X ResolveSchemaDefs] :
            DistinctKeys(r)}

InitResolve ==
    /\ pc = "models"
    /\ spec \in {SpecTree(r, OnePath) : r \in ResolveRegistries}
    /\ hash_seed \in Seeds
    /\ files = <<>>
    /\ written = <<>>
    /\ run = 1
    /\ first_output = <<>>
    /\ schema_index = 0
    /\ prop_index = 0
    /\ stack = <<>>
    /\ returned = <<>>
    /\ model_references = {}
    /\ schema = <<>>
    /\ with_collector = FALSE
    /\ python_type = <<>>
    /\ resolved = {}
    /\ calls = 0
    /\ IdleSanitize
    /\ IdleCli

resolveFrame == <<sanVars, cliVars, schema, with_collector, python_type, resolved, calls,
                  spec, hash_seed, run, first_output>>

\* Lines 343-354: models/__init__.py is written.
BeginModels ==
    /\ pc = "models"
    /\ Emit(<<[path |-> Path("package/models", <<"__init__.py">>),
               content |-> ModelsInit(spec.schemas)]>>)
    /\ pc' = "schemas"
    /\ UNCHANGED <<resolveFrame, resolveVars, model_references>>

\* Lines 357-366: the next schema, with a new empty set.
BeginModel ==
    /\ pc = "schemas"
    /\ schema_index < Len(spec.schemas)
    /\ schema_index' = schema_index + 1
    /\ prop_index' = 0
    /\ model_references' = {}
    /\ pc' = "prescan"
    /\ UNCHANGED <<resolveFrame, files, written, stack, returned>>

\* Line 357: no schema is left.
FinishModels ==
    /\ pc = "schemas"
    /\ schema_index = Len(spec.schemas)
    /\ pc' = "done"
    /\ UNCHANGED <<resolveFrame, files, written, resolveVars, model_references>>

\* Lines 369 and 399: _get_python_type is called on the next property.
CallResolver ==
    /\ pc \in {"prescan", "fields"}
    /\ stack = <<>>
    /\ returned = <<>>
    /\ prop_index < Len(CurrentProperties)
    /\ prop_index' = prop_index + 1
    /\ stack' = <<CurrentProperties[prop_index + 1][2]>>
    /\ UNCHANGED <<pc, resolveFrame, files, written, schema_index, returned,
                   model_references>>

\* Line 120: the call of the top of the stack calls _get_python_type on its
\* items.
Recurse ==
    /\ stack # <<>>
    /\ returned = <<>>
    /\ Callee(stack[Len(stack)]) # <<>>
    /\ Len(stack) < MaxFrames
    /\ stack' = Append(stack, Callee(stack[Len(stack)])[1])
    /\ UNCHANGED <<pc, resolveFrame, files, written, schema_index, prop_index,
                   returned, model_references>>

\* Lines 98-117 and 122-135: a call that makes no recursive call returns.
ReturnLeaf ==
    /\ stack # <<>>
    /\ returned = <<>>
    /\ Callee(stack[Len(stack)]) = <<>>
    /\ LET r == Call(stack[Len(stack)], pc = "prescan", model_references)
       IN  /\ returned' = <<r.ret>>
           /\ model_references' = r.refs
    /\ stack' = SubSeq(stack, 1, Len(stack) - 1)
    /\ UNCHANGED <<pc, resolveFrame, files, written, schema_index, prop_index>>

\* Line 121: the call that made the recursive call returns List[item_type].
ReturnList ==
    /\ stack # <<>>
    /\ returned # <<>>
    /\ returned' = <<ListOf(returned[1])>>
    /\ stack' = SubSeq(stack, 1, Len(stack) - 1)
    /\ UNCHANGED <<pc, resolveFrame, files, written, schema_index, prop_index,
                   model_references>>

\* f.write on the file of the current model, the last one opened.
WriteCurrent(content) ==
    /\ files' = [files EXCEPT ![ModelPath(sanitize_name(CurrentSchema[1]))] = content]
    /\ written' = [written EXCEPT ![Len(written)].content = content]

\* Line 369: the outermost call of the pre-scan has returned, its value is
\* dropped.
PrescanReturned ==
    /\ pc = "prescan"
    /\ stack = <<>>
    /\ returned # <<>>
    /\ returned' = <<>>
    /\ UNCHANGED <<pc, resolveFrame, files, written, schema_index, prop_index, stack,
                   model_references>>

\* Lines 371-395: the pre-scan is over, the file of the model is opened and
\* its header, its imports and its class line are written.
EndPrescan ==
    /\ pc = "prescan"
    /\ stack = <<>>
    /\ returned = <<>>
    /\ prop_index = Len(CurrentProperties)
    /\ Emit(<<[path |-> ModelPath(sanitize_name(CurrentSchema[1])),
               content |->
                   [kind |-> "model",
                    doc |-> CurrentSchema[1],
                    imports_header |-> model_references # {},
                    imports |-> ReferencedImports(sanitize_name(CurrentSchema[1]),
                                                  model_references, hash_seed),
                    class |-> sanitize_name(CurrentSchema[1]),
                    fields |-> <<>>,
                    pass |-> FALSE]]>>)
    /\ prop_index' = 0
    /\ pc' = "fields"
    /\ UNCHANGED <<resolveFrame, schema_index, stack, returned, model_references>>

\* Lines 399-404: the outermost call of the field loop has returned, the
\* line of the property is written.
FieldReturned ==
    /\ pc = "fields"
    /\ stack = <<>>
    /\ returned # <<>>
    /\ LET content == files[ModelPath(sanitize_name(CurrentSchema[1]))]
           line == FieldLine(CurrentProperties[prop_index][1], returned[1],
                             RequiredOf(CurrentSchema[2]))
       IN  WriteCurrent([content EXCEPT !.fields = Append(content.fields, line)])
    /\ returned' = <<>>
    /\ UNCHANGED <<pc, resolveFrame, schema_index, prop_index, stack, model_references>>

\* Lines 397-408: no property is left; `pass` is written when there was
\* none, and the file is closed.
EndFields ==
    /\ pc = "fields"
    /\ stack = <<>>
    /\ returned = <<>>
    /\ prop_index = Len(CurrentProperties)
    /\ LET content == files[ModelPath(sanitize_name(CurrentSchema[1]))]
       IN  WriteCurrent([content EXCEPT !.pass = (CurrentProperties = <<>>)])
    /\ pc' = "schemas"
    /\ UNCHANGED <<resolveFrame, resolveVars, model_references>>

NextResolve ==
    \/ BeginModels
    \/ BeginModel
    \/ FinishModels
    \/ CallResolver
    \/ Recurse
    \/ ReturnLeaf
    \/ ReturnList
    \/ PrescanReturned
    \/ FieldReturned
    \/ EndPrescan
    \/ EndFields

\* _generate_models is sequential code that runs to completion: a step that
\* can be taken is taken.
SpecResolve == InitResolve /\ [][NextResolve]_vars /\ WF_vars(NextResolve)

(***************************************************************************)
(* Claims about generate() (Spec).                                         *)
(***************************************************************************)
\* C3: two runs of generate() on the same spec tree leave the same output:
\* the same file paths with the same content, whatever order the sets of
\* each run are iterated in.
C3_Deterministic ==
    (run = 2 /\ pc \in {"done", "error"}) => files = first_output

\* Both runs are complete, the second under another hash seed than an
\* ascending iteration, on a spec whose model imports two other models and
\* whose facade holds two modules.
C3_Witness ==
    /\ run = 2
    /\ pc = "done"
    /\ hash_seed = 1
    /\ files = first_output
    /\ \E p \in DOMAIN files :
        /\ files[p].kind = "model"
        /\ Len(files[p].imports) = 2
    /\ Len(files[Path("package", <<"client.py">>)].imports) = 2

\* The writes of the model files of this run, one per schema in order.
ModelFileWrites == SelectSeq(written, LAMBDA w : w.content.kind = "model")

ModelsWritten == pc \in {"api", "tests", "setup", "readme", "done"}

\* C8: in every generated model, each declared property yields one field;
\* the field is bare (no Optional wrapper, no default) if and only if the
\* raw property name is in the schema's `required` list, and is
\* Optional[type] = None otherwise; a `required` entry that names no
\* declared property yields no field.
C8_RequiredIffListed ==
    ModelsWritten =>
        /\ Len(ModelFileWrites) = Len(spec.schemas)
        /\ \A i \in 1..Len(spec.schemas) :
            LET sd == spec.schemas[i][2]
                declared == IF sd.properties = <<>> THEN <<>> ELSE sd.properties[1]
                listed == IF sd.required = <<>> THEN {} ELSE Range(sd.required[1])
                fields == ModelFileWrites[i].content.fields
            IN  /\ Len(fields) = Len(declared)
                /\ \A j \in 1..Len(declared) :
                    LET t == get_python_type(declared[j][2], <<>>).ret
                    IN  /\ fields[j].name = sanitize_name(declared[j][1])
                        /\ declared[j][1] \in listed
                            <=> (fields[j].annotation = t /\ fields[j].default = <<>>)
                        /\ declared[j][1] \notin listed
                            <=> (fields[j].annotation = <<"Optional[">> \o t \o <<"]">>
                                    /\ fields[j].default = <<"None">>)

\* A model with a required property `a.b` and an optional one, whose
\* `required` list also names a property that is not declared.
C8_Witness ==
    /\ ModelsWritten
    /\ \E i \in 1..Len(spec.schemas) :
        /\ spec.schemas[i][2].required = <<<<<<"a", ".", "b">>, <<"b">>>>>>
        /\ Len(ModelFileWrites[i].content.fields) = 2
        /\ \E j \in 1..2 :
            /\ ModelFileWrites[i].content.fields[j].name = <<"a", "_", "b">>
            /\ ModelFileWrites[i].content.fields[j].default = <<>>
        /\ \E j \in 1..2 : ModelFileWrites[i].content.fields[j].default = <<"None">>

PrimitiveAnnotations ==
    {<<"Any">>, <<"int">>, <<"float">>, <<"bool">>, <<"str">>, <<"datetime">>,
     <<"date">>, <<"bytes">>, <<"Dict[str, Any]">>}

\* The model an annotation refers to: what is left of it without the
\* Optional[ ] and List[ ] wrappers, unless that is a built-in type.
ModelsIn(annotation) ==
    LET core == SelectSeq(annotation, LAMBDA t : t \notin {"Optional[", "List[", "]"})
    IN  IF core \in PrimitiveAnnotations THEN {} ELSE {core}

\* C9: the imports of referenced models of a model file never include the
\* model's own name, also when its properties refer to it directly or
\* through an array, and every other model its fields refer to is imported.
C9_NoSelfImport ==
    ModelsWritten =>
        \A i \in 1..Len(ModelFileWrites) :
            LET f == ModelFileWrites[i].content
                own == sanitize_name(spec.schemas[i][1])
                used == UNION {ModelsIn(f.fields[j].annotation) : j \in 1..Len(f.fields)}
            IN  /\ f.class = own
                /\ \A k \in 1..Len(f.imports) : f.imports[k][2] # own
                /\ {f.imports[k][2] : k \in 1..Len(f.imports)} = used \ {own}

\* Model A refers to itself directly and to a_b through an array: it
\* imports a_b alone.
C9_Witness ==
    /\ ModelsWritten
    /\ \E i \in 1..Len(ModelFileWrites) :
        LET f == ModelFileWrites[i].content
        IN  /\ f.class = <<"A">>
            /\ \E j \in 1..Len(f.fields) : f.fields[j].annotation = <<"Optional[", "A", "]">>
            /\ f.imports = <<<<<<"a", "_", "b">>, <<"a", "_", "b">>>>>>

\* C10: every emitted module holds at least one operation: no API module
\* file is written without a method, and the client facade imports no module
\* that has none.
C10_NoEmptyModule ==
    /\ \A i \in 1..Len(written) :
        written[i].content.kind = "api" => written[i].content.methods # <<>>
    /\ \A i \in 1..Len(written) :
        written[i].content.kind = "client" =>
            \A k \in 1..Len(written[i].content.imports) :
                \E e \in Range(Entries(spec.paths)) :
                    /\ e.operation.operationId \notin {<<>>, <<<<>>>>}
                    /\ \E t \in Range(TagsOf(e.operation)) :
                        lower(sanitize_name(t)) = written[i].content.imports[k][1]

(***************************************************************************)
(* Claims about the recursion of _get_python_type (SpecResolve).           *)
(***************************************************************************)
\* Every active call but the outermost resolves the `items` of an array
\* node, the node of its caller: no call is made on the target of a `$ref`.
OnlyItemsResolved ==
    \A k \in 2..Len(stack) :
        /\ stack[k - 1].type = "array"
        /\ stack[k] = (IF stack[k - 1].items = <<>> THEN EmptySchema
                       ELSE stack[k - 1].items[1])

\* C7: _get_python_type recurses only into array items and never into the
\* target of a `$ref`, and building the models terminates, also for schemas
\* that refer to themselves or to each other.
C7_TerminatesWithoutDereference ==
    /\ []OnlyItemsResolved
    /\ <>(pc = "done")

\* The models of two schemas that refer to each other have been built.
C7_Witness ==
    /\ pc = "done"
    /\ Len(spec.schemas) = 2
    /\ spec.schemas[1][1] = <<"A">>
    /\ spec.schemas[2][1] = <<"a", ".", "b">>
    /\ spec.schemas[1][2].properties = Present(<<<<<<"a">>, ArrayOf(RefDottedNode)>>>>)
    /\ spec.schemas[2][2].properties = Present(<<<<<<"a">>, RefANode>>>>)
    /\ Len(written) = 3

(***************************************************************************)
(* Claims about the API modules and their tests (Spec).                    *)
(***************************************************************************)
\* The operations of the spec tree as <<path index, method index>> pairs.
OperationSlots ==
    {s \in (1..Len(spec.paths)) \X (1..Len(Methods)) : s[2] <= Len(spec.paths[s[1]][2])}

SlotPath(s) == spec.paths[s[1]][1]
SlotMethod(s) == spec.paths[s[1]][2][s[2]][1]
SlotOperation(s) == spec.paths[s[1]][2][s[2]][2]

\* The operation carries an operationId that is not the empty string.
SlotNamed(s) == SlotOperation(s).operationId \notin {<<>>, <<<<>>>>}

\* The places of tag t in the tag list of the operation.
SlotTagPlaces(s, t) ==
    LET tags == IF SlotOperation(s).tags = <<>> THEN <<DefaultTag>>
                ELSE SlotOperation(s).tags[1]
    IN  {j \in 1..Len(tags) : tags[j] = t}

\* C11: an operation without an operationId (missing or empty) has no
\* method in any API module and no test method in any API test file, and
\* every operation of the same tag that has one has its method and its test.
C11_UnnamedSkipped ==
    \A i \in 1..Len(written) :
        LET w == written[i].content
            mine == {s \in OperationSlots : SlotTagPlaces(s, w.tag) # {}}
            named == {s \in mine : SlotNamed(s)}
        IN  /\ w.kind = "api" =>
                /\ \A s \in mine :
                    SlotNamed(s) <=>
                        \E k \in 1..Len(w.methods) :
                            /\ w.methods[k].method = SlotMethod(s)
                            /\ w.methods[k].path = SlotPath(s)
                /\ \A k \in 1..Len(w.methods) :
                    \E s \in named :
                        /\ w.methods[k].method = SlotMethod(s)
                        /\ w.methods[k].path = SlotPath(s)
                        /\ w.methods[k].name = sanitize_name(SlotOperation(s).operationId[1])
            /\ w.kind = "test_api" =>
                /\ \A s \in named :
                    \E k \in 1..Len(w.tests) :
                        /\ w.tests[k].method = SlotMethod(s)
                        /\ w.tests[k].name = sanitize_name(SlotOperation(s).operationId[1])
                /\ \A k \in 1..Len(w.tests) :
                    \E s \in named :
                        /\ w.tests[k].method = SlotMethod(s)
                        /\ w.tests[k].name = sanitize_name(SlotOperation(s).operationId[1])
                /\ named = {} => w.tests = <<>>

\* The module and the test file of a tag with a named POST and an unnamed
\* GET on the same path hold the POST alone.
C11_Witness ==
    /\ pc = "done"
    /\ \E i, j \in 1..Len(written) :
        /\ written[i].content.kind = "api"
        /\ written[j].content.kind = "test_api"
        /\ written[i].content.tag = written[j].content.tag
        /\ \E s1, s2 \in OperationSlots :
            /\ s1[1] = s2[1]
            /\ SlotTagPlaces(s1, written[i].content.tag) # {}
            /\ SlotTagPlaces(s2, written[i].content.tag) # {}
            /\ SlotNamed(s1)
            /\ ~SlotNamed(s2)
        /\ Len(written[i].content.methods) = 1
        /\ Len(written[j].content.tests) = 1

\* The tag list of the operation.
SlotTags(s) ==
    IF SlotOperation(s).tags = <<>> THEN <<DefaultTag>> ELSE SlotOperation(s).tags[1]

\* The methods of an API module written for the operation.
SlotMethods(w, s) ==
    {k \in 1..Len(w.methods) :
        w.methods[k].method = SlotMethod(s) /\ w.methods[k].path = SlotPath(s)}

ApiModuleWrites == SelectSeq(written, LAMBDA w : w.content.kind = "api")

ApiModulesWritten == pc \in {"tests", "setup", "readme", "done"}

ClientWrites == SelectSeq(written, LAMBDA w : w.content.kind = "client")

\* C13: the client facade imports and instantiates one module object for
\* each API module file written, that is for every tag of every operation,
\* and no two of its slots have the same module name.
C13_FacadeCoversEveryModule ==
    ApiModulesWritten =>
        LET facade == ClientWrites[1].content
        IN  /\ {facade.imports[k][1] \o <<".py">> : k \in 1..Len(facade.imports)}
                = {ApiModuleWrites[i].path.file : i \in 1..Len(ApiModuleWrites)}
            /\ facade.attributes = facade.imports
            /\ \A k, l \in 1..Len(facade.imports) :
                facade.imports[k][1] = facade.imports[l][1] => k = l

\* C14: within one run of generate() no two writes open the same path.
C14_NoPathWrittenTwice ==
    \A i, j \in 1..Len(written) : written[i].path = written[j].path => i = j

\* C15: no step of generate() raises on a sparse spec (no schemas, schemas
\* without `properties` or `required`, no paths, operations without
\* parameters, responses or tags), and every schema, also one without
\* properties, has its model file, with one field per declared property.
C15_SparseSpecNeverRaises ==
    /\ pc # "error"
    /\ ModelsWritten =>
        /\ Len(ModelFileWrites) = Len(spec.schemas)
        /\ \A i \in 1..Len(spec.schemas) :
            /\ ModelFileWrites[i].content.doc = spec.schemas[i][1]
            /\ Len(ModelFileWrites[i].content.fields)
                = (IF spec.schemas[i][2].properties = <<>> THEN 0
                   ELSE Len(spec.schemas[i][2].properties[1]))

(***************************************************************************)
(* SpecCli: one run of the command line, cli.main, down to                 *)
(* ClientGenerator.__init__, _load_spec and generate().                    *)
(***************************************************************************)
\* Path /a whose only operation has an empty tag list.
EmptyTagsPath ==
    <<<<PathA, <<<<"get", Operation(Present(<<>>), Present(<<"g">>))>>>>>>>>

\* The spec trees a file can hold.
CliSpecTrees ==
    {SpecTree(<<>>, <<>>), SpecTree(OneSchema, OnePath), SpecTree(<<>>, EmptyTagsPath)}

\* What the file holds: text that cannot be parsed, a document that is a
\* list and no dict, or a spec tree.
FileContents ==
    {[kind |-> "malformed"], [kind |-> "list"]}
    \cup {[kind |-> "tree", tree |-> t] : t \in CliSpecTrees}

Extensions == {".json", ".yaml", ".yml", ".txt"}

load_spec_lenient(spec_path, file) ==
    IF file.exists /\ file.content.kind = "tree"
    THEN [raised |-> "none", value |-> file.content]
    ELSE [raised |-> "none", value |-> [kind |-> "tree", tree |-> SpecTree(<<>>, <<>>)]]

\* ClientGenerator._load_spec: the exception raised, or the parsed value.
load_spec(spec_path, file) ==
    IF ~file.exists THEN [raised |-> "ValueError", value |-> <<>>]
    ELSE IF spec_path[Len(spec_path)] = ".json"
         THEN IF file.content.kind = "malformed"
              THEN [raised |-> "JSONDecodeError", value |-> <<>>]
              ELSE [raised |-> "none", value |-> file.content]
    ELSE IF spec_path[Len(spec_path)] \in {".yaml", ".yml"}
         THEN IF file.content.kind = "malformed"
              THEN [raised |-> "YAMLError", value |-> <<>>]
              ELSE [raised |-> "none", value |-> file.content]
    ELSE [raised |-> "ValueError", value |-> <<>>]

CaughtValueErrorOnly(exception) == exception = "ValueError"

\* `except Exception` (cli.py line 78): every exception class raised here
\* derives from Exception.
CaughtByMain(exception) ==
    exception \in {"ValueError", "JSONDecodeError", "YAMLError", "AttributeError",
                   "IndexError"}

InitCli ==
    /\ pc = "main"
    /\ cli_args \in [spec_path : {<<"spec", e>> : e \in Extensions},
                     output_dir : {<<>>, <<"out">>},
                     verbose : BOOLEAN]
    /\ spec_file \in [exists : BOOLEAN, content : FileContents]
    /\ raised = "none"
    /\ exit_code = <<>>
    /\ generate_calls = <<>>
    /\ spec = [schemas |-> <<>>, paths |-> <<>>]
    /\ hash_seed \in Seeds
    /\ files = <<>>
    /\ written = <<>>
    /\ run = 1
    /\ first_output = <<>>
    /\ IdleSanitize
    /\ IdleType
    /\ IdleResolve

cliFrame == <<sanVars, typeVars, resolveVars, run, first_output, hash_seed,
              cli_args, spec_file>>

\* cli.main, lines 68-75: the arguments are parsed, logging is set up and
\* generate_client_from_spec is called.
CallGenerate ==
    /\ pc = "main"
    /\ generate_calls' = Append(generate_calls, <<cli_args.spec_path, cli_args.output_dir>>)
    /\ pc' = "init"
    /\ UNCHANGED <<cliFrame, spec, files, written, raised, exit_code>>

\* ClientGenerator.__init__, lines 32-40: the spec is loaded; self.spec.get
\* raises AttributeError on a document that is no dict.
Construct ==
    /\ pc = "init"
    /\ LET loaded == load_spec(cli_args.spec_path, spec_file)
       IN  IF loaded.raised # "none"
           THEN /\ raised' = loaded.raised
                /\ pc' = "except"
                /\ UNCHANGED spec
           ELSE IF loaded.value.kind # "tree"
                THEN /\ raised' = "AttributeError"
                     /\ pc' = "except"
                     /\ UNCHANGED spec
                ELSE /\ spec' = loaded.value.tree
                     /\ pc' = "generate"
                     /\ UNCHANGED raised
    /\ UNCHANGED <<cliFrame, files, written, exit_code, generate_calls>>

\* ClientGenerator.generate: every step in order, up to the IndexError of
\* _generate_client_module when there is one.
RunGenerate ==
    /\ pc = "generate"
    /\ IF ClientModuleRaises(spec.paths)
       THEN /\ Emit(StructureWrites
                    \o <<[path |-> Path("package", <<"client.py">>),
                          content |-> ClientModuleHeader]>>)
            /\ raised' = "IndexError"
            /\ pc' = "except"
       ELSE /\ Emit(StructureWrites
                    \o <<[path |-> Path("package", <<"client.py">>),
                          content |-> ClientModule(spec.paths, hash_seed)]>>
                    \o ModelWrites(spec.schemas, hash_seed)
                    \o ApiWrites(spec.paths)
                    \o TestWrites(spec.schemas, spec.paths)
                    \o <<[path |-> Path("", <<"setup.py">>), content |-> Fixed("setup")],
                         [path |-> Path("", <<"README.md">>), content |-> Fixed("readme")]>>)
            /\ pc' = "return"
            /\ UNCHANGED raised
    /\ UNCHANGED <<cliFrame, spec, exit_code, generate_calls>>

\* cli.main, lines 76-77: generate_client_from_spec returned.
ReturnSuccess ==
    /\ pc = "return"
    /\ exit_code' = <<0>>
    /\ pc' = "exited"
    /\ UNCHANGED <<cliFrame, spec, files, written, raised, generate_calls>>

\* cli.main, lines 78-82: the exception is caught and 1 is returned; an
\* exception the handler does not catch leaves main without a return value.
ReturnFailure ==
    /\ pc = "except"
    /\ exit_code' = IF CaughtByMain(raised) THEN <<1>> ELSE <<>>
    /\ pc' = "exited"
    /\ UNCHANGED <<cliFrame, spec, files, written, raised, generate_calls>>

NextCli ==
    \/ CallGenerate
    \/ Construct
    \/ RunGenerate
    \/ ReturnSuccess
    \/ ReturnFailure

SpecCli == InitCli /\ [][NextCli]_vars

(***************************************************************************)
(* Claims about the command line and the loader (SpecCli).                 *)
(***************************************************************************)
\* Loading the file at spec_path fails.
LoadFails ==
    \/ ~spec_file.exists
    \/ cli_args.spec_path[2] \notin {".json", ".yaml", ".yml"}
    \/ spec_file.content.kind = "malformed"

\* C16: when loading the spec fails (no file at the path, an extension
\* that is neither .json nor .yaml/.yml, content that cannot be parsed), an
\* exception is raised before any directory or file is created: generate()
\* is never started and the output location stays as it was.
C16_LoadFailureLeavesNoOutput ==
    LoadFails =>
        /\ pc \notin {"generate", "return"}
        /\ files = <<>>
        /\ written = <<>>
        /\ pc \in {"except", "exited"} => raised \in {"ValueError", "JSONDecodeError", "YAMLError"}

\* The run on a .yaml file that exists but cannot be parsed is over.
C16_Witness ==
    /\ pc = "exited"
    /\ spec_file.exists
    /\ spec_file.content.kind = "malformed"
    /\ cli_args.spec_path[2] = ".yaml"
    /\ raised = "YAMLError"
    /\ files = <<>>

\* C17: main returns 0 exactly when generate_client_from_spec returned
\* normally and 1 whenever it raised; it calls generate_client_from_spec
\* once, with the spec path and the output directory of the command line
\* (None when there is none).
C17_ExitCodeFollowsGenerate ==
    /\ Len(generate_calls) <= 1
    /\ pc # "main" => generate_calls = <<<<cli_args.spec_path, cli_args.output_dir>>>>
    /\ pc = "exited" =>
        /\ raised = "none" <=> exit_code = <<0>>
        /\ raised # "none" <=> exit_code = <<1>>
        /\ raised = "none" <=> (spec_file.exists /\ ~LoadFails
                                 /\ spec_file.content.kind = "tree"
                                 /\ ~ClientModuleRaises(spec_file.content.tree.paths))

\* main has returned 1 after generate() raised IndexError half-way, called
\* without an output directory.
C17_Witness ==
    /\ pc = "exited"
    /\ raised = "IndexError"
    /\ exit_code = <<1>>
    /\ files # <<>>
    /\ generate_calls = <<<<cli_args.spec_path, <<>>>>>>

(***************************************************************************)
(* Claims about the test scaffold (Spec).                                  *)
(***************************************************************************)
ModelTestWrites == SelectSeq(written, LAMBDA w : w.content.kind = "test_models")

TestsWritten == pc \in {"setup", "readme", "done"}

\* C18: in tests/test_models.py, the constructor call of each model passes
\* an argument for every field of the model that has no default, passes no
\* argument that names no field of the model, and every assertion reads a
\* field of the model.
C18_ModelTestUsesModelFields ==
    (TestsWritten /\ spec.schemas # <<>>) =>
        \A i \in 1..Len(spec.schemas) :
            LET test == ModelTestWrites[1].content.tests[i]
                fields == ModelFileWrites[i].content.fields
                names == {fields[j].name : j \in 1..Len(fields)}
            IN  /\ test.model = ModelFileWrites[i].content.class
                /\ \A j \in 1..Len(fields) :
                    fields[j].default = <<>> =>
                        \E k \in 1..Len(test.init_args) :
                            test.init_args[k].name = fields[j].name
                /\ \A k \in 1..Len(test.init_args) : test.init_args[k].name \in names
                /\ \A k \in 1..Len(test.assertions) : test.assertions[k].field \in names

ApiTestWrites == SelectSeq(written, LAMBDA w : w.content.kind = "test_api")

\* The declared parameters of the operation at a location.
SlotParams(s, location) ==
    LET declared == IF SlotOperation(s).parameters = <<>> THEN <<>>
                    ELSE SlotOperation(s).parameters[1]
    IN  SelectSeq(declared, LAMBDA p : p.in = location)

\* The text of the argument the call passes under a name.
CallText(call, arg_name) ==
    LET k == CHOOSE k \in 1..Len(call) : call[k].name = arg_name
    IN  call[k].value.text

RECURSIVE SubstitutedPath(_, _, _)
\* The path with the placeholder of each path parameter replaced by the
\* text of the argument the call passes for it.
SubstitutedPath(path, path_params, call) ==
    IF path_params = <<>> THEN path
    ELSE SubstitutedPath(
            Replace(path, <<"{">> \o path_params[1].name \o <<"}">>,
                    CallText(call, sanitize_name(path_params[1].name))),
            Tail(path_params), call)

\* C19: in every API test file, the call written for an operation passes
\* an argument for each path parameter and for each required query
\* parameter of the operation, and the URL it asserts is the path of the
\* operation with each placeholder replaced by the value the call passes.
C19_TestCallSuppliesArguments ==
    TestsWritten =>
        \A i \in 1..Len(ApiTestWrites) :
            LET w == ApiTestWrites[i].content
            IN  \A s \in {s \in OperationSlots : SlotNamed(s) /\ SlotTagPlaces(s, w.tag) # {}} :
                    \A k \in 1..Len(w.tests) :
                        (/\ w.tests[k].method = SlotMethod(s)
                         /\ w.tests[k].name = sanitize_name(SlotOperation(s).operationId[1]))
                        => LET passed == {w.tests[k].call[j].name :
                                            j \in 1..Len(w.tests[k].call)}
                               path_params == SlotParams(s, "path")
                               query_params == SlotParams(s, "query")
                           IN  /\ \A j \in 1..Len(path_params) :
                                    sanitize_name(path_params[j].name) \in passed
                               /\ \A j \in 1..Len(query_params) :
                                    (query_params[j].required = <<TRUE>>)
                                        => sanitize_name(query_params[j].name) \in passed
                               /\ path_params # <<>> =>
                                    w.tests[k].url
                                        = <<SubstitutedPath(SlotPath(s), path_params,
                                                            w.tests[k].call)>>

\* The place of an HTTP method in the order GET, POST, PUT, DELETE, PATCH.
MethodRank(m) ==
    CASE m = "get" -> 1 [] m = "post" -> 2 [] m = "put" -> 3
      [] m = "delete" -> 4 [] m = "patch" -> 5

\* The place of a path among the paths of the spec.
PathRank(path) == CHOOSE i \in 1..Len(spec.paths) : spec.paths[i][1] = path

\* <<path, method, tag place>> triples in the order of the traversal.
Before(x, y) ==
    \/ x[1] < y[1]
    \/ x[1] = y[1] /\ x[2] < y[2]
    \/ x[1] = y[1] /\ x[2] = y[2] /\ x[3] < y[3]

\* The places where the traversal meets tag t.
TagSeenAt(t) ==
    UNION {{<<s[1], MethodRank(SlotMethod(s)), j>> : j \in SlotTagPlaces(s, t)} :
            s \in OperationSlots}

\* The first place where the traversal meets tag t.
TagFirstSeen(t) ==
    CHOOSE x \in TagSeenAt(t) : \A y \in TagSeenAt(t) : x = y \/ Before(x, y)

\* C20: in every API module the methods follow the order of the paths in the
\* spec and, on one path, the order GET, POST, PUT, DELETE, PATCH, whatever
\* the order of the methods in the path item; the modules are written in
\* the order in which their tags are first met.
C20_DeclarationOrder ==
    ApiModulesWritten =>
        /\ \A i \in 1..Len(ApiModuleWrites) :
            LET methods == ApiModuleWrites[i].content.methods
            IN  \A k, l \in 1..Len(methods) :
                    k < l =>
                        \/ PathRank(methods[k].path) < PathRank(methods[l].path)
                        \/ /\ methods[k].path = methods[l].path
                           /\ MethodRank(methods[k].method) <= MethodRank(methods[l].method)
        /\ \A i, j \in 1..Len(ApiModuleWrites) :
            i < j => Before(TagFirstSeen(ApiModuleWrites[i].content.tag),
                            TagFirstSeen(ApiModuleWrites[j].content.tag))

\* Path /b lists POST (tag a) before GET (tags b, a), and path /a lists
\* PATCH before GET: module b is written before module a, and module a holds
\* GET /b, POST /b, GET /a, PATCH /a in this order.
C20_Witness ==
    /\ ApiModulesWritten
    /\ spec.paths = UnorderedPaths
    /\ Len(ApiModuleWrites) = 2
    /\ ApiModuleWrites[1].content.tag = <<"b">>
    /\ ApiModuleWrites[2].content.tag = <<"a">>
    /\ [k \in 1..4 |-> <<ApiModuleWrites[2].content.methods[k].path,
                         ApiModuleWrites[2].content.methods[k].method>>]
        = <<<<PathB, "get">>, <<PathB, "post">>, <<PathA, "get">>, <<PathA, "patch">>>>

(***************************************************************************)
(* Claims about listings, types and signatures (Spec).                     *)
(***************************************************************************)
\* No identifier of the listing is followed by a smaller one.
Alphabetical(names) ==
    \A k, l \in 1..Len(names) : k < l => ~StrLess(names[l], names[k])

\* C21: every derived listing that is written is sorted alphabetically by
\* identifier: the imports and the instantiations of the API modules in the
\* client facade, the imports of referenced models in each model file, and
\* the re-export list of the models package.
C21_ListingsSorted ==
    \A i \in 1..Len(written) :
        LET w == written[i].content
        IN  /\ (w.kind = "client" /\ w.complete) =>
                /\ Alphabetical([k \in 1..Len(w.imports) |-> w.imports[k][2]])
                /\ Alphabetical([k \in 1..Len(w.attributes) |-> w.attributes[k][1]])
            /\ w.kind = "model" => Alphabetical([k \in 1..Len(w.imports) |-> w.imports[k][2]])
            /\ w.kind = "models_init" =>
                Alphabetical([k \in 1..Len(w.imports) |-> w.imports[k][2]])

(***************************************************************************)
(* Claims about the methods of the API modules (SpecApi).                  *)
(***************************************************************************)
\* The '200' entry of the operation's responses when it has one, otherwise
\* its '201' entry; <<>> when it has neither.
DeclaredSuccess(operation) ==
    IF operation.responses = <<>> THEN <<>>
    ELSE IF operation.responses[1].r200 # <<>> THEN operation.responses[1].r200
    ELSE operation.responses[1].r201

\* The resolution of the application/json schema of a content entry, Any
\* when there is no such content.
JsonTypeOf(content) ==
    IF content = <<>> \/ content[1].json = <<>> THEN <<"Any">>
    ELSE IF content[1].json[1].schema = <<>> THEN Call(EmptySchema, FALSE, {}).ret
    ELSE Call(content[1].json[1].schema[1], FALSE, {}).ret

\* C22: the return type of a method is the resolution of the JSON content
\* schema of the '200' response when the operation declares one, otherwise
\* of its '201' response; it is Any when that response has no
\* application/json content or when neither response is declared.
C22_ReturnTypeOfDeclaredResponse ==
    ApiModulesWritten =>
        \A i \in 1..Len(ApiModuleWrites) :
            \A s \in OperationSlots :
                \A k \in SlotMethods(ApiModuleWrites[i].content, s) :
                    LET chosen == DeclaredSuccess(SlotOperation(s))
                    IN  ApiModuleWrites[i].content.methods[k].return_type
                            = IF chosen = <<>> THEN <<"Any">>
                              ELSE JsonTypeOf(chosen[1].content)

\* The requestBody of the operation declares application/json content.
DeclaresJsonBody(operation) ==
    /\ operation.requestBody # <<>>
    /\ operation.requestBody[1].content # <<>>
    /\ operation.requestBody[1].content[1].json # <<>>

\* The arguments of a method that are named data.
DataArguments(m) == {a \in 1..Len(m.arguments) : m.arguments[a].name = <<"data">>}

\* C23: a method has a body parameter `data` if and only if the requestBody
\* of its operation declares application/json content; the type of the
\* parameter is the resolution of the schema of that content; it is bare
\* (no Optional, no default) if and only if the `required` flag of the
\* requestBody is true, an absent flag counting as false; and the request
\* forwards the body exactly when the parameter exists.
C23_BodyParameter ==
    ApiModulesWritten =>
        \A i \in 1..Len(ApiModuleWrites) :
            \A s \in OperationSlots :
                \A k \in SlotMethods(ApiModuleWrites[i].content, s) :
                    LET m == ApiModuleWrites[i].content.methods[k]
                        operation == SlotOperation(s)
                        body == operation.requestBody[1]
                    IN  /\ (DataArguments(m) # {}) <=> DeclaresJsonBody(operation)
                        /\ m.json <=> (DataArguments(m) # {})
                        /\ Cardinality(DataArguments(m)) <= 1
                        /\ \A a \in DataArguments(m) :
                            IF body.required = <<TRUE>>
                            THEN /\ m.arguments[a].annotation = JsonTypeOf(body.content)
                                 /\ m.arguments[a].default = <<>>
                            ELSE /\ m.arguments[a].annotation
                                        = <<"Optional[">> \o JsonTypeOf(body.content) \o <<"]">>
                                 /\ m.arguments[a].default = <<"None">>

\* A method has been written for an operation whose requestBody declares
\* JSON content with a reference to A and no `required` flag: its `data`
\* parameter is Optional[A] and the request forwards it.
C23_Witness ==
    /\ ApiModulesWritten
    /\ \E i \in 1..Len(ApiModuleWrites) :
        \E s \in OperationSlots :
            \E k \in SlotMethods(ApiModuleWrites[i].content, s) :
                LET m == ApiModuleWrites[i].content.methods[k]
                IN  /\ DeclaresJsonBody(SlotOperation(s))
                    /\ SlotOperation(s).requestBody[1].required = <<>>
                    /\ m.json
                    /\ \E a \in DataArguments(m) :
                        m.arguments[a].annotation = <<"Optional[", "A", "]">>

\* The declared parameters of the operation whose location is path, query
\* or header.
KeptParams(s) ==
    LET declared == IF SlotOperation(s).parameters = <<>> THEN <<>>
                    ELSE SlotOperation(s).parameters[1]
    IN  SelectSeq(declared, LAMBDA p : p.in \in {"path", "query", "header"})

\* The resolution of the parameter's own schema, Any when it has none.
ParamTypeOf(p) ==
    IF p.schema = <<>> THEN <<"Any">> ELSE Call(p.schema[1], FALSE, {}).ret

\* C24: for every parameter of an operation in the locations path, query
\* and header, the method signature has an argument of the sanitized name
\* whose type is the result of _get_python_type on the schema of that
\* parameter (Any without a schema), bare or wrapped in Optional.
C24_ParameterTypeFromOwnSchema ==
    ApiModulesWritten =>
        \A i \in 1..Len(ApiModuleWrites) :
            \A s \in OperationSlots :
                \A k \in SlotMethods(ApiModuleWrites[i].content, s) :
                    LET m == ApiModuleWrites[i].content.methods[k]
                        kept == KeptParams(s)
                    IN  \A j \in 1..Len(kept) :
                            \E a \in 1..Len(m.arguments) :
                                /\ m.arguments[a].name = sanitize_name(kept[j].name)
                                /\ m.arguments[a].annotation
                                    \in {ParamTypeOf(kept[j]),
                                         <<"Optional[">> \o ParamTypeOf(kept[j]) \o <<"]">>}

\* The operation without its parameters outside path, query and header.
WithoutDropped(s) ==
    [SlotOperation(s) EXCEPT !.parameters = <<KeptParams(s)>>]

\* The kept parameters of the operation at a location.
KeptAt(s, location) == SelectSeq(KeptParams(s), LAMBDA p : p.in = location)

\* C25: a declared parameter whose location is none of path, query and
\* header (cookie, or no location) is dropped: the signature, the docstring
\* and the request of the method have one entry for each parameter in the
\* three locations (and for the body) and no other, and the method is the
\* one written for the same operation declared without the dropped
\* parameters.
C25_UnknownLocationDropped ==
    ApiModulesWritten =>
        \A i \in 1..Len(ApiModuleWrites) :
            \A s \in OperationSlots :
                \A k \in SlotMethods(ApiModuleWrites[i].content, s) :
                    LET m == ApiModuleWrites[i].content.methods[k]
                        body == IF DeclaresJsonBody(SlotOperation(s)) THEN 1 ELSE 0
                    IN  /\ Len(m.arguments) = Len(KeptParams(s)) + body
                        /\ Len(m.documented) = Len(KeptParams(s)) + body
                        /\ [j \in 1..Len(m.params) |-> m.params[j][1]]
                            = [j \in 1..Len(KeptAt(s, "query")) |-> KeptAt(s, "query")[j].name]
                        /\ [j \in 1..Len(m.headers) |-> m.headers[j][1]]
                            = [j \in 1..Len(KeptAt(s, "header")) |-> KeptAt(s, "header")[j].name]
                        /\ m = ApiMethod([path |-> SlotPath(s), method |-> SlotMethod(s),
                                          operation |-> WithoutDropped(s)])

\* A method has been written for an operation that declares a cookie
\* parameter b before a query parameter: the method has the query
\* parameter alone.
C25_Witness ==
    /\ ApiModulesWritten
    /\ \E i \in 1..Len(ApiModuleWrites) :
        \E s \in OperationSlots :
            \E k \in SlotMethods(ApiModuleWrites[i].content, s) :
                /\ SlotOperation(s).parameters # <<>>
                /\ Len(SlotOperation(s).parameters[1]) = 2
                /\ SlotOperation(s).parameters[1][1].in = "cookie"
                /\ SlotOperation(s).parameters[1][2].in = "query"
                /\ Len(ApiModuleWrites[i].content.methods[k].arguments) = 1
                /\ Len(ApiModuleWrites[i].content.methods[k].params) = 1

\* The place of the first "}" of a text, 0 when it has none.
Closing(text) ==
    IF \E i \in 1..Len(text) : text[i] = "}"
    THEN CHOOSE i \in 1..Len(text) : text[i] = "}" /\ \A j \in 1..(i - 1) : text[j] # "}"
    ELSE 0

RECURSIVE PlaceholderNames(_)
\* The names between braces in a path text.
PlaceholderNames(text) ==
    IF text = <<>> THEN {}
    ELSE IF text[1] = "{" /\ Closing(text) > 0
         THEN {SubSeq(text, 2, Closing(text) - 1)}
              \cup PlaceholderNames(SubSeq(text, Closing(text) + 1, Len(text)))
         ELSE PlaceholderNames(Tail(text))

RECURSIVE Renamed(_, _)
\* The path text with the name of each placeholder that is in `names`
\* sanitized, and every other character kept.
Renamed(text, names) ==
    IF text = <<>> THEN <<>>
    ELSE IF text[1] = "{" /\ Closing(text) > 0
         THEN LET inner == SubSeq(text, 2, Closing(text) - 1)
              IN  <<"{">> \o (IF inner \in names THEN sanitize_name(inner) ELSE inner)
                  \o <<"}">> \o Renamed(SubSeq(text, Closing(text) + 1, Len(text)), names)
         ELSE <<text[1]>> \o Renamed(Tail(text), names)

\* The path template of every method is the path with the placeholder of
\* each declared path parameter renamed to the sanitized name, in whatever
\* order the parameters are declared, and the rest of the text unchanged.
PlaceholdersRenamed ==
    ApiModulesWritten =>
        \A i \in 1..Len(ApiModuleWrites) :
            \A s \in OperationSlots :
                \A k \in SlotMethods(ApiModuleWrites[i].content, s) :
                    ApiModuleWrites[i].content.methods[k].template
                        = Renamed(SlotPath(s),
                                  {KeptAt(s, "path")[j].name : j \in 1..Len(KeptAt(s, "path"))})

\* C26: in the path template of every method, the placeholder {rawName} of
\* every declared path parameter has become {sanitizedName}, whatever the
\* order of the parameters, the rest of the path is unchanged, and every
\* placeholder of the template names an argument of the method.
C26_TemplateNamesArguments ==
    /\ PlaceholdersRenamed
    /\ ApiModulesWritten =>
        \A i \in 1..Len(ApiModuleWrites) :
            \A k \in 1..Len(ApiModuleWrites[i].content.methods) :
                LET m == ApiModuleWrites[i].content.methods[k]
                IN  \A x \in PlaceholderNames(m.template) :
                        \E a \in 1..Len(m.arguments) : m.arguments[a].name = x

(***************************************************************************)
(* Idempotence of _sanitize_name (SpecSanitize).                           *)
(***************************************************************************)
\* C27: _sanitize_name applied to its own output returns it unchanged, for
\* every raw name; in particular the prefix 'api_' is not added again.
C27_Idempotent == pc = "returned" => sanitize_name(sanitized) = sanitized

\* The output for the raw name "1-." has received the prefix and is left
\* as it is by a second application.
C27_Witness ==
    /\ pc = "returned"
    /\ name = <<"1", "-", ".">>
    /\ sanitized = ApiPrefix \o <<"1", "_", "_">>
    /\ sanitize_name(sanitized) = ApiPrefix \o <<"1", "_", "_">>

(***************************************************************************)
(* Claims about the order of fields and arguments.                         *)
(***************************************************************************)
\* No entry without a default comes after an entry with a default.
DefaultsLast(entries) ==
    \A k, l \in 1..Len(entries) :
        (k < l /\ entries[k].default # <<>>) => entries[l].default # <<>>

\* C28: in every model class written, no field without a default (a
\* required field) comes after a field with a default (an optional field).
C28_RequiredFieldsFirst ==
    \A i \in 1..Len(written) :
        written[i].content.kind = "model" => DefaultsLast(written[i].content.fields)

\* C29: in the signature of every method written (path parameters, query
\* parameters, body, header parameters), no parameter without a default
\* comes after a parameter with a default.
C29_RequiredArgumentsFirst ==
    \A i \in 1..Len(written) :
        written[i].content.kind = "api" =>
            \A k \in 1..Len(written[i].content.methods) :
                DefaultsLast(written[i].content.methods[k].arguments)

(***************************************************************************)
(* Operations without tags (Spec).                                         *)
(***************************************************************************)
\* The operation has no `tags` key or an empty `tags` list.
Untagged(s) == SlotOperation(s).tags \in {<<>>, <<<<>>>>}

\* C30: for every value of `tags`, the client facade is written completely
\* and every operation with an operationId has its method in at least one
\* API module; an operation without `tags` or with an empty `tags` list has
\* it in the module `default`.
C30_EveryNamedOperationEmitted ==
    /\ \A i \in 1..Len(written) :
        written[i].content.kind = "client" => written[i].content.complete
    /\ ApiModulesWritten =>
        \A s \in {s \in OperationSlots : SlotNamed(s)} :
            /\ \E i \in 1..Len(ApiModuleWrites) :
                SlotMethods(ApiModuleWrites[i].content, s) # {}
            /\ Untagged(s) =>
                \E i \in 1..Len(ApiModuleWrites) :
                    /\ ApiModuleWrites[i].path.file = <<"d", "e", "f", "a", "u", "l", "t", ".py">>
                    /\ SlotMethods(ApiModuleWrites[i].content, s) # {}

====
